---------------------------- MODULE Spec2Model ----------------------------
(***************************************************************************)
(* Model of the statistical test engine of Simple-Py-Statistical-Testing.  *)
(*                                                                         *)
(* Every test function is one action: it takes its arguments and what the  *)
(* user types at its prompts, runs the body of the function to its return  *)
(* or to the exception it raises, and leaves the returned record, the      *)
(* warnings it collected, the steps it executed and the divisions by zero  *)
(* it evaluated in the state.  The methods of DataManager and the menus of *)
(* MenuSystem.run (the main menu, the data management menu, the menus of   *)
(* the one-sample t-test and of the chi-square test of association) are    *)
(* actions of the same kind, and are run by specifications of their own.   *)
(*                                                                         *)
(* Text.  What the user types is a Python str, modelled as the sequence of *)
(* its characters; split, strip, lower and float act on it as in Python.   *)
(*                                                                         *)
(* Numbers.  A float is modelled exactly as an extended rational           *)
(*   [c |-> "fin", n, d]  (n/d in lowest terms, d > 0),                     *)
(*   [c |-> "inf", n |-> 1 or -1],  [c |-> "nan"],                          *)
(* with numpy's float64 rules for the exceptional cases (x/0 = +-inf,      *)
(* 0/0 = nan, nan propagates, every comparison with nan is false).         *)
(* A quantity the code obtains through a square root (a standard           *)
(* deviation, a t statistic, Cohen's d) is carried by its signed square    *)
(* sgn(x)*x^2, which is rational and determines x, its sign and its class. *)
(* A p-value, which the code obtains from scipy's distribution functions,  *)
(* is an input of the action drawn from PGrid, restricted by what the      *)
(* statistic fixes (nan for nan, 0 for an infinite statistic).             *)
(***************************************************************************)
EXTENDS Integers, Sequences, FiniteSets, TLC

VARIABLES
    pc,          \* "idle": no call in progress, the main menu is shown;
                 \* "returned" / "raised": a call ended; "data": the data
                 \* management menu is shown; "invalid": an invalid choice was
                 \* reported; "exited": run has returned
    call,        \* the function called, its arguments, the number typed at its prompt
    result,      \* the record the call returned (a function from keys to values)
    raised,      \* the message of the exception the call raised, or "none"
    warnings,    \* the list `warnings` of the call, in append order
    trace,       \* the steps the call executed, in order
    zerodiv,     \* source lines at which the call divided by zero
    hypotheses,  \* what get_hypothesis_input returned to the call
    printName,   \* print_test_results.__name__, shared by all calls
    repeats,     \* the ended call that the next call repeats with other hypothesis
                 \* texts (its arguments, what it was supplied and its outcome),
                 \* or <<>> when the next call repeats none
    datasets     \* DataManager.datasets: the stored names with their data, in
                 \* insertion order

vars == <<pc, call, result, raised, warnings, trace, zerodiv, hypotheses, printName,
          repeats, datasets>>

-----------------------------------------------------------------------------
(* Bounds of the model *)

MaxLen == 3        \* longest sample
MaxVal == 1        \* samples hold the values 0..MaxVal
MaxGroups == 2     \* most groups passed to one_way_anova / kruskal_wallis_test
MaxGroupLen == 2   \* longest group
MaxBadInputs == 1  \* most unparsable answers to one numeric prompt
MaxCats == 2       \* most categories of a goodness-of-fit test
MaxRows == 2       \* most rows of a contingency table
MaxCols == 3       \* most columns of a contingency table

Values == 0..MaxVal

SeqsUpTo(S, k) == UNION {[1..m -> S] : m \in 1..k}

\* the samples given to the one-sample tests
Samples == SeqsUpTo(Values, MaxLen)

\* the samples given to the two-sample tests, and the groups given to the
\* k-sample tests: 0/1 data
BinaryValues == {0, 1}

PairSamples == SeqsUpTo(BinaryValues, MaxLen)

GroupSamples == SeqsUpTo(BinaryValues, MaxGroupLen)

GroupLists == UNION {[1..k -> GroupSamples] : k \in 0..MaxGroups}

-----------------------------------------------------------------------------
(* Extended rationals: numpy float64 arithmetic, exact on the finite part *)

RECURSIVE GCD(_, _)
GCD(a, b) == IF b = 0 THEN a ELSE GCD(b, a % b)

Abs(x) == IF x < 0 THEN -x ELSE x

Sign(x) == IF x > 0 THEN 1 ELSE IF x < 0 THEN -1 ELSE 0

NaN == [c |-> "nan", n |-> 0, d |-> 1]

Inf(s) == [c |-> "inf", n |-> s, d |-> 1]

Fin(n, d) ==
    LET s == IF d < 0 THEN -1 ELSE 1
        g == GCD(Abs(n), Abs(d))
    IN  [c |-> "fin", n |-> (s * n) \div g, d |-> (s * d) \div g]

Num(i) == [c |-> "fin", n |-> i, d |-> 1]

IsNaN(x) == x.c = "nan"

IsInf(x) == x.c = "inf"

IsFin(x) == x.c = "fin"

IsZero(x) == x.c = "fin" /\ x.n = 0

\* the sign of a non-nan value
SignOf(x) == Sign(x.n)

FNeg(x) == IF IsNaN(x) THEN NaN ELSE [x EXCEPT !.n = -x.n]

FAdd(x, y) ==
    IF IsNaN(x) \/ IsNaN(y) THEN NaN
    ELSE IF IsInf(x) /\ IsInf(y) THEN (IF x.n = y.n THEN x ELSE NaN)
    ELSE IF IsInf(x) THEN x
    ELSE IF IsInf(y) THEN y
    ELSE LET g == GCD(x.d, y.d)
         IN  Fin(x.n * (y.d \div g) + y.n * (x.d \div g), (x.d \div g) * y.d)

FSub(x, y) == FAdd(x, FNeg(y))

FAbs(x) == IF IsNaN(x) THEN NaN ELSE [x EXCEPT !.n = Abs(x.n)]

FMul(x, y) ==
    IF IsNaN(x) \/ IsNaN(y) THEN NaN
    ELSE IF IsInf(x) \/ IsInf(y)
         THEN (IF IsZero(x) \/ IsZero(y) THEN NaN ELSE Inf(SignOf(x) * SignOf(y)))
    ELSE LET g1 == GCD(Abs(x.n), y.d)
             g2 == GCD(Abs(y.n), x.d)
         IN  Fin((x.n \div g1) * (y.n \div g2), (x.d \div g2) * (y.d \div g1))

\* numpy division: a zero denominator gives +-inf or nan and a warning, no exception
FDiv(x, y) ==
    IF IsNaN(x) \/ IsNaN(y) THEN NaN
    ELSE IF IsInf(y) THEN (IF IsInf(x) THEN NaN ELSE Num(0))
    ELSE IF IsZero(y) THEN (IF IsZero(x) THEN NaN
                            ELSE Inf(SignOf(x)))
    ELSE IF IsInf(x) THEN Inf(SignOf(x) * SignOf(y))
    ELSE LET g1 == GCD(Abs(x.n), Abs(y.n))
             g2 == GCD(x.d, y.d)
         IN  Fin((x.n \div g1) * (y.d \div g2), (x.d \div g2) * (y.n \div g1))

\* x > y, false when either is nan
FGt(x, y) ==
    /\ ~IsNaN(x)
    /\ ~IsNaN(y)
    /\ IF IsInf(x) THEN x.n = 1 /\ ~(IsInf(y) /\ y.n = 1)
       ELSE IF IsInf(y) THEN y.n = -1
       ELSE x.n * y.d > y.n * x.d

FEq(x, y) == ~IsNaN(x) /\ ~IsNaN(y) /\ x = y

FGe(x, y) == FGt(x, y) \/ FEq(x, y)

FLt(x, y) == FGt(y, x)

\* the signed square sgn(x)*x^2 of x
Sq(x) ==
    IF IsNaN(x) THEN NaN
    ELSE IF IsInf(x) THEN x
    ELSE Fin(Sign(x.n) * x.n * x.n, x.d * x.d)

\* a division evaluated at source line `line`: the line is recorded when the
\* denominator is zero
ZeroAt(line, den) == IF IsZero(den) THEN {line} ELSE {}

-----------------------------------------------------------------------------
(* Descriptive statistics of a list of numbers (numpy) *)

RECURSIVE SumSeq(_)
SumSeq(s) == IF s = <<>> THEN 0 ELSE s[1] + SumSeq(Tail(s))

SumSq(s) == SumSeq([i \in 1..Len(s) |-> s[i] * s[i]])

\* np.mean(data)
Mean(data) == FDiv(Num(SumSeq(data)), Num(Len(data)))

\* sum of squared deviations from the mean, n*sum(x^2) - sum(x)^2 over n
SumSqDev(data) ==
    FDiv(Num(Len(data) * SumSq(data) - SumSeq(data) * SumSeq(data)), Num(Len(data)))

\* np.var(data, ddof): nan (0/0) when len(data) = ddof
Var(data, ddof) == FDiv(SumSqDev(data), Num(Len(data) - ddof))

\* the values of s in ascending order
RECURSIVE Sorted(_)
Sorted(s) ==
    IF s = <<>> THEN <<>>
    ELSE LET m == CHOOSE i \in 1..Len(s) : \A j \in 1..Len(s) : s[i] <= s[j]
         IN  <<s[m]>> \o Sorted([i \in 1..(Len(s) - 1) |-> IF i < m THEN s[i] ELSE s[i + 1]])

\* np.median(data)
Median(data) ==
    LET t == Sorted(data)
        n == Len(data)
    IN  IF n % 2 = 1 THEN Num(t[(n + 1) \div 2])
        ELSE Fin(t[n \div 2] + t[n \div 2 + 1], 2)

-----------------------------------------------------------------------------
(* Text typed at a prompt: a Python str, as the sequence of its characters *)

\* str.split(sep): the parts of s between the occurrences of sep, one part
\* more than there are occurrences
RECURSIVE Split(_, _)
Split(s, sep) ==
    IF \A i \in DOMAIN s : s[i] # sep THEN <<s>>
    ELSE LET i == CHOOSE i \in DOMAIN s : s[i] = sep /\ \A j \in 1..(i - 1) : s[j] # sep
         IN  <<SubSeq(s, 1, i - 1)>> \o Split(SubSeq(s, i + 1, Len(s)), sep)

\* str.strip(): s without its leading and trailing blanks
RECURSIVE Strip(_)
Strip(s) ==
    IF s # <<>> /\ Head(s) = " " THEN Strip(Tail(s))
    ELSE IF s # <<>> /\ s[Len(s)] = " " THEN Strip(SubSeq(s, 1, Len(s) - 1))
    ELSE s

\* re.sub(r'\s+', '', s): s without any of its blanks
Unspaced(s) == SelectSeq(s, LAMBDA ch : ch # " ")

Digit ==
    "0" :> 0 @@ "1" :> 1 @@ "2" :> 2 @@ "3" :> 3 @@ "4" :> 4
    @@ "5" :> 5 @@ "6" :> 6 @@ "7" :> 7 @@ "8" :> 8 @@ "9" :> 9

\* the number a string of digits denotes, after the digits read into acc
RECURSIVE Numeral(_, _)
Numeral(digits, acc) ==
    IF digits = <<>> THEN acc
    ELSE Numeral(Tail(digits), 10 * acc + Digit[Head(digits)])

\* float(text), for text made of blanks, signs, digits and letters: <<v>> for
\* an optional sign and one digit or more between blanks, <<>> where float()
\* raises ValueError
PyFloat(text) ==
    LET s == Strip(text)
        signed == s # <<>> /\ Head(s) \in {"-", "+"}
        digits == IF signed THEN Tail(s) ELSE s
    IN  IF digits = <<>> \/ \E i \in DOMAIN digits : digits[i] \notin DOMAIN Digit
        THEN <<>>
        ELSE <<IF signed /\ Head(s) = "-" THEN -Numeral(digits, 0)
               ELSE Numeral(digits, 0)>>

\* sep.join(parts), for one part or more
RECURSIVE JoinWith(_, _)
JoinWith(parts, sep) ==
    IF Len(parts) = 1 THEN parts[1]
    ELSE parts[1] \o <<sep>> \o JoinWith(Tail(parts), sep)

-----------------------------------------------------------------------------
(* utils/validators.py *)

NormMinSize == 30

validate_minimum_sample_size(data, min_size) == Len(data) >= min_size

\* a validator that lets a shorter first sample through, so that zip() truncates
validate_sizes_truncating(data1, data2) == Len(data1) <= Len(data2)

validate_equal_sample_sizes(data1, data2) == Len(data1) = Len(data2)

\* the points further than 3 standard deviations (ddof = 0) from the mean
Outliers(data) ==
    {i \in 1..Len(data) :
        FGt(FAbs(Sq(FSub(Num(data[i]), Mean(data)))), FMul(Num(9), Var(data, 0)))}

\* <<is_valid, message>>; a message is <<text, the number formatted into it>>
validate_normality_assumption(data) ==
    LET n == Len(data)
    IN  IF n < NormMinSize
        THEN <<FALSE, <<"Sample size is small. Consider normality testing.", n>>>>
        ELSE IF n > 1 /\ 20 * Cardinality(Outliers(data)) > n
        THEN <<FALSE, <<"Dataset has potential outliers. Check normality.",
                        Cardinality(Outliers(data))>>>>
        ELSE <<TRUE, <<"Sample size adequate for normality assumption.", 0>>>>

\* int(x) of Python: x truncated toward zero
PyInt(x) == IF x.n >= 0 THEN x.n \div x.d ELSE -((-x.n) \div x.d)

\* validate_categorical_data: not empty, and every int(x) >= 0
validate_categorical_data(data) ==
    /\ data # <<>>
    /\ \A i \in 1..Len(data) : PyInt(data[i]) >= 0

\* what validate_contingency_table returns when it refuses: (False, None, message)
Refused(message) == [is_valid |-> FALSE, table |-> <<>>, error_msg |-> message]

\* the loop of validate_contingency_table over the rows, `table` holding the
\* rows already appended; (True, table, None) at its end
RECURSIVE validate_rows(_, _)
validate_rows(rows, table) ==
    IF Len(table) = Len(rows)
    THEN [is_valid |-> TRUE, table |-> <<table>>, error_msg |-> "None"]
    ELSE LET fields == Split(rows[Len(table) + 1], ",")
             parsed == [j \in DOMAIN fields |-> PyFloat(Strip(fields[j]))]
             row == [j \in DOMAIN fields |-> parsed[j][1]]
         IN  IF \E j \in DOMAIN fields : parsed[j] = <<>>
             THEN Refused("Invalid table format: could not convert string to float")
             ELSE IF table # <<>> /\ Len(row) # Len(table[1])
             THEN Refused("All rows must have the same number of columns")
             ELSE IF \E j \in DOMAIN row : row[j] < 0
             THEN Refused("All values must be non-negative")
             ELSE validate_rows(rows, Append(table, row))

\* validate_contingency_table(table_str): (is_valid, parsed_table, error_message)
validate_contingency_table(table_str) ==
    LET rows == Split(table_str, ";")
    IN  IF Len(rows) < 2 THEN Refused("Need at least 2 rows for contingency table")
        ELSE validate_rows(rows, <<>>)

\* len(set(data)) == 1
IsConstant(data) == Cardinality({data[i] : i \in 1..Len(data)}) = 1

\* a correlation gate that looks for a constant variable before it counts the points
validate_correlation_data_constant_first(x_data, y_data) ==
    IF Len(x_data) # Len(y_data)
    THEN <<FALSE, "X and Y datasets must have equal length">>
    ELSE IF IsConstant(x_data)
    THEN <<FALSE, "X variable is constant (no variation)">>
    ELSE IF IsConstant(y_data)
    THEN <<FALSE, "Y variable is constant (no variation)">>
    ELSE IF Len(x_data) < 3
    THEN <<FALSE, "Need at least 3 data points for correlation">>
    ELSE <<TRUE, "None">>

\* validate_correlation_data: <<is_valid, error_message>>, "None" for no message
validate_correlation_data(x_data, y_data) ==
    IF Len(x_data) # Len(y_data)
    THEN <<FALSE, "X and Y datasets must have equal length">>
    ELSE IF Len(x_data) < 3
    THEN <<FALSE, "Need at least 3 data points for correlation">>
    ELSE IF IsConstant(x_data)
    THEN <<FALSE, "X variable is constant (no variation)">>
    ELSE IF IsConstant(y_data)
    THEN <<FALSE, "Y variable is constant (no variation)">>
    ELSE <<TRUE, "None">>

DefaultNull == "No significant difference/effect"

DefaultAlt == "Significant difference/effect exists"

\* get_hypothesis_input: the two answers, stripped, blank replaced by the default
get_hypothesis_input(typed) ==
    <<IF typed[1] = "" THEN DefaultNull ELSE typed[1],
      IF typed[2] = "" THEN DefaultAlt ELSE typed[2]>>

HypothesisSteps == <<"input H0", "input H1">>

-----------------------------------------------------------------------------
(* What the environment supplies to a call *)

\* the significance levels a caller passes (0.05 is the default)
Alphas == {Fin(1, 20), Fin(1, 100)}

\* the p-values scipy may return for a finite statistic
PGrid == {Fin(1, 100), Fin(1, 20)}

\* the texts typed at the two hypothesis prompts: nothing, or a statement each
HypAnswers == {<<"", "">>, <<"H0 as typed", "H1 as typed">>}

\* an answer to a numeric prompt that parses: blank (<<>>) or a numeral (<<v>>)
NumberAnswers == {<<>>} \cup {<<v>> : v \in Values}

\* float(input(...) or "0")
ParseAnswer(a) == IF a = <<>> THEN 0 ELSE a[1]

\* a numeric prompt answered `bad` times with text float() rejects, then with
\* one it accepts
PromptSteps(what, bad) ==
    [i \in 1..(2 * bad + 1) |-> IF i % 2 = 1 THEN what ELSE "print invalid number"]

\* one choice of the p-value scipy returns for a finite statistic
Scipy == PGrid

\* the p-value of a scipy test whose statistic is `stat`: nan for a nan
\* statistic, 0 for an infinite one
PValue(scipy, stat) ==
    IF IsNaN(stat) THEN NaN
    ELSE IF IsInf(stat) THEN Num(0)
    ELSE scipy

\* stats.t.ppf(1 - alpha/2, df): a positive number, nan unless df > 0
TQuantile(df) == IF FGt(df, Num(0)) THEN "pos" ELSE "nan"

\* the class of quantile * sqrt(seSq)
HalfWidth(q, seSq) ==
    IF q = "nan" \/ IsNaN(seSq) THEN "nan"
    ELSE IF IsZero(seSq) THEN "zero"
    ELSE IF IsInf(seSq) THEN "inf"
    ELSE "pos"

\* the interval (center - hw, center + hw)
Interval(center, hw) == [center |-> center, hw |-> hw]

\* the class of the bounds of an interval
BoundClass(ci) ==
    IF IsNaN(ci.center) \/ ci.hw = "nan" THEN "nan"
    ELSE IF IsInf(ci.center) /\ ci.hw = "inf" THEN "nan"
    ELSE IF IsInf(ci.center) \/ ci.hw = "inf" THEN "inf"
    ELSE "fin"

\* f"{'Reject' if p_value < alpha else 'Fail to reject'} H0 at alpha = {alpha}"
Interpretation(p_value, alpha) ==
    [verdict |-> IF FLt(p_value, alpha) THEN "Reject" ELSE "Fail to reject",
     alpha |-> alpha]

\* Repeating a call.  A call may repeat the call that ended before it: it is
\* then the same function with the same arguments, it is supplied the same
\* numbers at its prompts and the same p-value by scipy, and only the texts
\* typed at the two hypothesis prompts are others.

\* the call about to run is free, or repeats a call of fn
Calls(fn) == IF repeats = <<>> THEN TRUE ELSE repeats.call.fn = fn

\* the values of the argument f: any of S, or the one of the repeated call
Arg(f, S) == IF repeats = <<>> THEN S ELSE {repeats.call[f]}

\* the values of the optional argument f when given: any of S, or the one of
\* the repeated call
GivenArg(f, S) == IF repeats = <<>> THEN S ELSE {repeats.call[f][1]}

\* the texts typed at the hypothesis prompts: any of S, or any that
\* get_hypothesis_input turns into another pair than that of the repeated call
Other(S) ==
    IF repeats = <<>> THEN S
    ELSE {typed \in S : get_hypothesis_input(typed) # repeats.hypotheses}

\* the p-value scipy supplies: any of S, or the one it supplied to the
\* repeated call
SameP(S) ==
    IF repeats = <<>> THEN S
    ELSE {scipy \in S :
            \A k \in {"p_value", "f_p_value"} \cap DOMAIN repeats.result :
                repeats.result[k] \in S => repeats.result[k] = scipy}

\* the number the repeated call got at its numeric prompt
RepeatedAnswer ==
    IF repeats.call.fn = "students_t_test"
    THEN repeats.result["hypothesized_mean"].n
    ELSE repeats.call.hyp_median

\* the answers to the numeric prompt: any of S, or those that give the number
\* the repeated call got ({<<>>} is the call that does not prompt)
SameAnswer(S) ==
    IF repeats = <<>> THEN S
    ELSE IF S = {<<>>} THEN S
    ELSE {a \in S : ParseAnswer(a) = RepeatedAnswer}

\* the number of unparsable answers: any of S, or that of the repeated call
SameBad(S) ==
    IF repeats = <<>> THEN S
    ELSE {bad \in S :
            bad = Cardinality({i \in DOMAIN repeats.trace :
                                 repeats.trace[i] = "print invalid number"})}

-----------------------------------------------------------------------------
(* The end of a call *)

NoResult == <<>>

NoHypotheses == <<>>

\* a return that also stores the hypothesis pair in the record
ReturnsWithHypotheses(c, res, ws, tr, zd, hyp, name) ==
    /\ pc' = "returned"
    /\ call' = c
    /\ result' = res @@ ("hypotheses" :> hyp)
    /\ raised' = "none"
    /\ warnings' = ws
    /\ trace' = tr
    /\ zerodiv' = zd
    /\ hypotheses' = hyp
    /\ printName' = name
    /\ UNCHANGED <<repeats, datasets>>

Returns(c, res, ws, tr, zd, hyp, name) ==
    /\ pc' = "returned"
    /\ call' = c
    /\ result' = res
    /\ raised' = "none"
    /\ warnings' = ws
    /\ trace' = tr
    /\ zerodiv' = zd
    /\ hypotheses' = hyp
    /\ printName' = name
    /\ UNCHANGED <<repeats, datasets>>

Raises(c, msg, tr, name) ==
    /\ pc' = "raised"
    /\ call' = c
    /\ result' = NoResult
    /\ raised' = msg
    /\ warnings' = <<>>
    /\ trace' = tr
    /\ zerodiv' = {}
    /\ hypotheses' = NoHypotheses
    /\ printName' = name
    /\ UNCHANGED <<repeats, datasets>>

\* a warning: the prefix put before the text ("Sample" or "Group" with its
\* number, "" and 0 for none), the text, and the number formatted into the
\* text (0 for none)
Warning(prefix, i, msg) == <<prefix, i, msg[1], msg[2]>>

\* warnings.append(w) if cond
AppendIf(ws, cond, w) == IF cond THEN Append(ws, w) ELSE ws

-----------------------------------------------------------------------------
(* tests/parametric_tests.py *)

\* stats.ttest_1samp(data, popmean): (mean - popmean) / sqrt(var / n), as its
\* signed square
ttest_1samp(data, popmean) ==
    FDiv(Sq(FSub(Mean(data), Num(popmean))), FDiv(Var(data, 1), Num(Len(data))))

\* the statistics students_t_test computes from its data and the hypothesized mean
students_statistics(data, population_mean) ==
    LET n == Len(data)
        sample_mean == Mean(data)
        sample_var == Var(data, 1)
        seSq == FDiv(sample_var, Num(n))
        df == n - 1
    IN  [t_statistic |-> ttest_1samp(data, population_mean),
         df |-> Num(df),
         sample_mean |-> sample_mean,
         cohens_d |-> FDiv(Sq(FSub(sample_mean, Num(population_mean))), sample_var),
         ci |-> Interval(sample_mean, HalfWidth(TQuantile(Num(df)), seSq)),
         zerodiv |-> ZeroAt("parametric_tests.py:66", sample_var)]

\* the warnings students_t_test and paired_t_test collect
t_test_warnings(data) ==
    LET norm == validate_normality_assumption(data)
        w1 == AppendIf(<<>>, ~validate_minimum_sample_size(data, 5),
                       Warning("", 0, <<"Very small sample size. Results may be unreliable.", 0>>))
    IN  AppendIf(w1, ~norm[1], Warning("", 0, norm[2]))

\* students_t_test: the results dictionary
students_t_results(st, population_mean, p_value, alpha) ==
    "test_name" :> "One-Sample Student's t-test"
    @@ "statistic" :> st.t_statistic
    @@ "p_value" :> p_value
    @@ "degrees_of_freedom" :> st.df
    @@ "sample_mean" :> st.sample_mean
    @@ "hypothesized_mean" :> Num(population_mean)
    @@ "effect_size" :> st.cohens_d
    @@ "confidence_interval" :> st.ci
    @@ "interpretation" :> Interpretation(p_value, alpha)

StudentsTTest ==
    /\ pc = "idle"
    /\ Calls("students_t_test")
    /\ \E data \in Arg("data", Samples), population_mean_arg \in Arg("population_mean", Values) :
       \E answer \in SameAnswer(IF population_mean_arg = 0 THEN NumberAnswers
                                 ELSE {<<>>}) :
       LET prompted == population_mean_arg = 0
           population_mean == IF prompted THEN ParseAnswer(answer) ELSE population_mean_arg
       IN  \E st \in {students_statistics(data, population_mean)},
              ws \in {t_test_warnings(data)} :
           \E scipy \in SameP(Scipy) :
           \E p_value \in {PValue(scipy, st.t_statistic)} :
               \E alpha \in Arg("alpha", Alphas), typed \in Other(HypAnswers),
                  bad \in SameBad(IF prompted THEN 0..MaxBadInputs ELSE {0}) :
               Returns([fn |-> "students_t_test", data |-> data,
                        population_mean |-> population_mean_arg, alpha |-> alpha],
                       students_t_results(st, population_mean, p_value, alpha),
                       ws,
                       <<"set __name__">>
                       \o (IF prompted THEN PromptSteps("input mean", bad) ELSE <<>>)
                       \o HypothesisSteps
                       \o <<"print warnings", "ttest_1samp", "statistics",
                            "print summary", "print results">>,
                       st.zerodiv,
                       get_hypothesis_input(typed),
                       "One-Sample Student's t-test")

\* [x2 - x1 for x1, x2 in zip(data1, data2)]
Differences(data1, data2) == [i \in 1..Len(data1) |-> data2[i] - data1[i]]

\* stats.ttest_rel(a, b): the one-sample t statistic of a - b, as its signed square
ttest_rel(a, b) == ttest_1samp([i \in 1..Len(a) |-> a[i] - b[i]], 0)

\* the statistics paired_t_test computes
paired_statistics(data1, data2) ==
    LET differences == Differences(data1, data2)
        n == Len(differences)
        mean_diff == Mean(differences)
        var_diff == Var(differences, 1)
        df == n - 1
    IN  [t_statistic |-> ttest_rel(data1, data2),
         df |-> Num(df),
         mean_diff |-> mean_diff,
         cohens_d |-> FDiv(Sq(mean_diff), var_diff),
         ci |-> Interval(mean_diff, HalfWidth(TQuantile(Num(df)), FDiv(var_diff, Num(n)))),
         zerodiv |-> ZeroAt("parametric_tests.py:139", var_diff)]

PairedTTest ==
    /\ pc = "idle"
    /\ Calls("paired_t_test")
    /\ \E data1 \in Arg("data1", PairSamples), data2 \in Arg("data2", PairSamples) :
       IF ~validate_equal_sample_sizes(data1, data2)
       THEN \E alpha \in Arg("alpha", Alphas) :
               Raises([fn |-> "paired_t_test", data1 |-> data1, data2 |-> data2,
                       alpha |-> alpha],
                      "Paired t-test requires equal sample sizes",
                      <<"set __name__">>, "Paired Samples t-test")
       ELSE \E st \in {paired_statistics(data1, data2)},
               ws \in {t_test_warnings(Differences(data1, data2))},
               scipy \in SameP(Scipy) :
            \E p_value \in {PValue(scipy, st.t_statistic)},
               typed \in Other(HypAnswers), alpha \in Arg("alpha", Alphas) :
                   Returns([fn |-> "paired_t_test", data1 |-> data1, data2 |-> data2,
                            alpha |-> alpha],
                           "test_name" :> "Paired Samples t-test"
                           @@ "statistic" :> st.t_statistic
                           @@ "p_value" :> p_value
                           @@ "degrees_of_freedom" :> st.df
                           @@ "mean_difference" :> st.mean_diff
                           @@ "effect_size" :> st.cohens_d
                           @@ "confidence_interval" :> st.ci
                           @@ "interpretation" :> Interpretation(p_value, alpha),
                           ws,
                           <<"set __name__">> \o HypothesisSteps
                           \o <<"differences", "print warnings", "ttest_rel", "statistics",
                                "print summary", "print results">>,
                           st.zerodiv,
                           get_hypothesis_input(typed),
                           "Paired Samples t-test")

\* |x - median(data)| for each x of data, doubled (the median of integers is a
\* multiple of 1/2)
AbsDevFromMedian2(data) ==
    LET m == Median(data)
        m2 == (2 * m.n) \div m.d
    IN  [i \in 1..Len(data) |-> Abs(2 * data[i] - m2)]

\* the upper 5% point of the F distribution with (1, df2) degrees of freedom
FCritical05(df2) ==
    CASE df2 = 1 -> Fin(16145, 100)
      [] df2 = 2 -> Fin(1851, 100)
      [] df2 = 3 -> Fin(1013, 100)
      [] df2 = 4 -> Fin(771, 100)
      [] df2 = 5 -> Fin(661, 100)
      [] df2 = 6 -> Fin(599, 100)
      [] df2 = 7 -> Fin(559, 100)
      [] df2 = 8 -> Fin(532, 100)
      [] df2 = 9 -> Fin(512, 100)
      [] df2 = 10 -> Fin(496, 100)
      [] OTHER -> Fin(484, 100)

\* the statistic W of stats.levene(data1, data2) (center = 'median'):
\* (N - 2) * sum n_i (Zbar_i - Zbar)^2  /  sum_i sum_j (Z_ij - Zbar_i)^2
LeveneW(data1, data2) ==
    LET z1 == AbsDevFromMedian2(data1)
        z2 == AbsDevFromMedian2(data2)
        n1 == Len(data1)
        n2 == Len(data2)
        zbar == Fin(SumSeq(z1) + SumSeq(z2), n1 + n2)
        dev1 == FSub(Mean(z1), zbar)
        dev2 == FSub(Mean(z2), zbar)
        numer == FMul(Num(n1 + n2 - 2),
                      FAdd(FMul(Num(n1), FMul(dev1, dev1)), FMul(Num(n2), FMul(dev2, dev2))))
        denom == FAdd(SumSqDev(z1), SumSqDev(z2))
    IN  FDiv(numer, denom)

\* levene_p > 0.05, for the p-value f.sf(W, 1, N - 2) of Levene's test
LevenePAbove05(data1, data2) ==
    LET W == LeveneW(data1, data2)
        df2 == Len(data1) + Len(data2) - 2
    IN  df2 >= 1 /\ IsFin(W) /\ FLt(W, FCritical05(df2))

\* stats.ttest_ind(data1, data2, equal_var), as its signed square
ttest_ind(data1, data2, equal_var) ==
    LET n1 == Len(data1)
        n2 == Len(data2)
        v1 == Var(data1, 1)
        v2 == Var(data2, 1)
        svar == FDiv(FAdd(FMul(Num(n1 - 1), v1), FMul(Num(n2 - 1), v2)), Num(n1 + n2 - 2))
        denomSq == IF equal_var
                   THEN FMul(svar, Fin(n1 + n2, n1 * n2))
                   ELSE FAdd(FDiv(v1, Num(n1)), FDiv(v2, Num(n2)))
    IN  FDiv(Sq(FSub(Mean(data1), Mean(data2))), denomSq)

\* a variance model that takes the caller's equal_var whatever Levene's test finds
independent_equal_var_as_passed(data1, data2, equal_var_arg) == equal_var_arg

\* the variance model independent_t_test uses: the caller's equal_var, set to
\* False when Levene's test finds unequal variances
independent_equal_var(data1, data2, equal_var_arg) ==
    IF ~LevenePAbove05(data1, data2) THEN FALSE ELSE equal_var_arg

\* the statistics independent_t_test computes under the variance model equal_var
independent_statistics(data1, data2, equal_var) ==
    LET n1 == Len(data1)
        n2 == Len(data2)
        mean1 == Mean(data1)
        mean2 == Mean(data2)
        var1 == Var(data1, 1)
        var2 == Var(data2, 1)
        pooled_var == FDiv(FAdd(FMul(Num(n1 - 1), var1), FMul(Num(n2 - 1), var2)),
                           Num(n1 + n2 - 2))
        se1Sq == FDiv(var1, Num(n1))
        se2Sq == FDiv(var2, Num(n2))
        welch_den == FAdd(FDiv(FMul(se1Sq, se1Sq), Num(n1 - 1)),
                          FDiv(FMul(se2Sq, se2Sq), Num(n2 - 1)))
        welch_df == FDiv(FMul(FAdd(se1Sq, se2Sq), FAdd(se1Sq, se2Sq)), welch_den)
        se_diffSq == IF equal_var THEN FMul(pooled_var, Fin(n1 + n2, n1 * n2))
                     ELSE FAdd(se1Sq, se2Sq)
        df == IF equal_var THEN Num(n1 + n2 - 2) ELSE welch_df
        mean_diff == FSub(mean1, mean2)
        cohens_d == IF equal_var /\ FGt(pooled_var, Num(0))
                    THEN FDiv(Sq(mean_diff), pooled_var)
                    ELSE IF FGt(var1, Num(0)) /\ FGt(var2, Num(0))
                    THEN FDiv(Sq(mean_diff), FDiv(FAdd(var1, var2), Num(2)))
                    ELSE Num(0)
    IN  [t_statistic |-> ttest_ind(data1, data2, equal_var),
         df |-> df,
         mean1 |-> mean1,
         mean2 |-> mean2,
         mean_diff |-> mean_diff,
         cohens_d |-> cohens_d,
         pooled |-> IF equal_var THEN <<pooled_var>> ELSE <<>>,
         ci |-> Interval(mean_diff, HalfWidth(TQuantile(df), se_diffSq)),
         zerodiv |-> IF equal_var
                     THEN ZeroAt("parametric_tests.py:220", Num(n1 + n2 - 2))
                     ELSE ZeroAt("parametric_tests.py:228", Num(n1 - 1))
                          \cup ZeroAt("parametric_tests.py:228", Num(n2 - 1))
                          \cup ZeroAt("parametric_tests.py:228", welch_den)]

\* the warnings independent_t_test collects
independent_warnings(data1, data2) ==
    LET norm1 == validate_normality_assumption(data1)
        norm2 == validate_normality_assumption(data2)
        w1 == AppendIf(<<>>, ~validate_minimum_sample_size(data1, 5)
                             \/ ~validate_minimum_sample_size(data2, 5),
                       Warning("", 0, <<"Small sample sizes. Results may be unreliable.", 0>>))
        w2 == AppendIf(w1, ~norm1[1], Warning("Sample", 1, norm1[2]))
        w3 == AppendIf(w2, ~norm2[1], Warning("Sample", 2, norm2[2]))
    IN  AppendIf(w3, ~LevenePAbove05(data1, data2),
                 Warning("", 0, <<"Unequal variances detected. Using Welch's t-test.", 0>>))

IndependentTTest ==
    /\ pc = "idle"
    /\ Calls("independent_t_test")
    /\ \E data1 \in Arg("data1", PairSamples), data2 \in Arg("data2", PairSamples) :
       \E ws \in {independent_warnings(data1, data2)},
          equal_var_arg \in Arg("equal_var", BOOLEAN) :
       \E equal_var \in {independent_equal_var(data1, data2, equal_var_arg)} :
       \E st \in {independent_statistics(data1, data2, equal_var)}, scipy \in SameP(Scipy) :
       \E p_value \in {PValue(scipy, st.t_statistic)},
          typed \in Other(HypAnswers), alpha \in Arg("alpha", Alphas) :
          Returns([fn |-> "independent_t_test", data1 |-> data1, data2 |-> data2,
                   alpha |-> alpha, equal_var |-> equal_var_arg],
                  "test_name" :> "Independent Samples t-test"
                  @@ "statistic" :> st.t_statistic
                  @@ "p_value" :> p_value
                  @@ "degrees_of_freedom" :> st.df
                  @@ "mean_1" :> st.mean1
                  @@ "mean_2" :> st.mean2
                  @@ "mean_difference" :> st.mean_diff
                  @@ "effect_size" :> st.cohens_d
                  @@ "equal_variances_assumed" :> equal_var
                  @@ "confidence_interval" :> st.ci
                  @@ "interpretation" :> Interpretation(p_value, alpha)
                  @@ (IF st.pooled # <<>> THEN "pooled_std" :> st.pooled[1] ELSE <<>>),
                  ws,
                  HypothesisSteps
                  \o <<"levene", "print warnings", "ttest_ind", "statistics",
                       "print summary", "print results">>,
                  st.zerodiv,
                  get_hypothesis_input(typed),
                  printName)

\* a value divided by a quantile of the F distribution (stats.f.ppf), which is
\* positive, or nan unless both degrees of freedom are positive: its class
OverFQuantile(x, df1, df2) ==
    IF IsNaN(x) \/ df1 < 1 \/ df2 < 1 THEN "nan"
    ELSE IF IsInf(x) THEN "inf"
    ELSE "fin"

\* f_test with the variance of the first sample always over that of the second
f_statistics_first_over_second(data1, data2) ==
    LET var1 == Var(data1, 1)
        var2 == Var(data2, 1)
        ratio == FDiv(var1, var2)
    IN  [f_statistic |-> ratio,
         df1 |-> Len(data1) - 1,
         df2 |-> Len(data2) - 1,
         var1 |-> var1,
         var2 |-> var2,
         variance_ratio |-> ratio,
         ci |-> [lower |-> OverFQuantile(ratio, Len(data1) - 1, Len(data2) - 1),
                 upper |-> OverFQuantile(ratio, Len(data1) - 1, Len(data2) - 1)],
         zerodiv |-> ZeroAt("parametric_tests.py:310", var2)]

\* the statistics f_test computes
f_statistics(data1, data2) ==
    LET var1 == Var(data1, 1)
        var2 == Var(data2, 1)
        first == FGe(var1, var2)
        numer == IF first THEN var1 ELSE var2
        denom == IF first THEN var2 ELSE var1
        df1 == IF first THEN Len(data1) - 1 ELSE Len(data2) - 1
        df2 == IF first THEN Len(data2) - 1 ELSE Len(data1) - 1
        ratio == FDiv(numer, denom)
    IN  [f_statistic |-> ratio,
         df1 |-> df1,
         df2 |-> df2,
         var1 |-> var1,
         var2 |-> var2,
         variance_ratio |-> ratio,
         ci |-> [lower |-> OverFQuantile(ratio, df1, df2),
                 upper |-> OverFQuantile(ratio, df1, df2)],
         zerodiv |-> IF first
                     THEN ZeroAt("parametric_tests.py:310", denom)
                          \cup ZeroAt("parametric_tests.py:326", denom)
                          \cup ZeroAt("parametric_tests.py:327", denom)
                          \cup ZeroAt("parametric_tests.py:340", denom)
                     ELSE ZeroAt("parametric_tests.py:314", denom)
                          \cup ZeroAt("parametric_tests.py:329", denom)
                          \cup ZeroAt("parametric_tests.py:330", denom)
                          \cup ZeroAt("parametric_tests.py:340", denom)]

\* the warnings f_test collects
f_test_warnings(data1, data2) ==
    LET norm1 == validate_normality_assumption(data1)
        norm2 == validate_normality_assumption(data2)
        w1 == AppendIf(<<>>, ~validate_minimum_sample_size(data1, 3)
                             \/ ~validate_minimum_sample_size(data2, 3),
                       Warning("", 0, <<"Very small sample sizes. Results may be unreliable.", 0>>))
        w2 == AppendIf(w1, ~norm1[1], Warning("Sample", 1, norm1[2]))
    IN  AppendIf(w2, ~norm2[1], Warning("Sample", 2, norm2[2]))

FTest ==
    /\ pc = "idle"
    /\ Calls("f_test")
    /\ \E data1 \in Arg("data1", PairSamples), data2 \in Arg("data2", PairSamples) :
       \E st \in {f_statistics(data1, data2)},
          ws \in {f_test_warnings(data1, data2)},
          scipy \in SameP(Scipy) :
       \E p_value \in {PValue(scipy, st.f_statistic)},
          typed \in Other(HypAnswers), alpha \in Arg("alpha", Alphas) :
          Returns([fn |-> "f_test", data1 |-> data1, data2 |-> data2, alpha |-> alpha],
                  "test_name" :> "F-test for Equality of Variances"
                  @@ "f_statistic" :> st.f_statistic
                  @@ "p_value" :> p_value
                  @@ "df1" :> Num(st.df1)
                  @@ "df2" :> Num(st.df2)
                  @@ "variance_1" :> st.var1
                  @@ "variance_2" :> st.var2
                  @@ "variance_ratio" :> st.variance_ratio
                  @@ "confidence_interval" :> st.ci
                  @@ "interpretation" :> Interpretation(p_value, alpha),
                  ws,
                  <<"set __name__">> \o HypothesisSteps
                  \o <<"print warnings", "statistics", "print summary", "print results">>,
                  st.zerodiv,
                  get_hypothesis_input(typed),
                  "F-test for Equality of Variances")

\* a guard that only rejects an empty list of groups
no_groups(groups) == Len(groups) < 1

\* len(groups) < 2, the guard of one_way_anova and kruskal_wallis_test
too_few_groups(groups) == Len(groups) < 2

\* the groups of one_way_anova and kruskal_wallis_test, one after the other
RECURSIVE Concat(_)
Concat(groups) == IF groups = <<>> THEN <<>> ELSE groups[1] \o Concat(Tail(groups))

RECURSIVE FSum(_)
FSum(fs) == IF fs = <<>> THEN Num(0) ELSE FAdd(fs[1], FSum(Tail(fs)))

SSBetween(groups) ==
    LET overall_mean == Mean(Concat(groups))
    IN  FSum([i \in 1..Len(groups) |->
                FMul(Num(Len(groups[i])),
                     FMul(FSub(Mean(groups[i]), overall_mean),
                          FSub(Mean(groups[i]), overall_mean)))])

SSWithin(groups) == FSum([i \in 1..Len(groups) |-> SumSqDev(groups[i])])

\* stats.f_oneway(*groups): (ss_between / (k - 1)) / (ss_within / (N - k))
f_oneway(groups) ==
    FDiv(FDiv(SSBetween(groups), Num(Len(groups) - 1)),
         FDiv(SSWithin(groups), Num(Len(Concat(groups)) - Len(groups))))

\* the statistics one_way_anova computes
anova_statistics(groups) ==
    LET k == Len(groups)
        n_total == Len(Concat(groups))
        ss_between == SSBetween(groups)
        ss_total == SumSqDev(Concat(groups))
    IN  [f_statistic |-> f_oneway(groups),
         df_between |-> k - 1,
         df_within |-> n_total - k,
         eta_squared |-> IF FGt(ss_total, Num(0)) THEN FDiv(ss_between, ss_total)
                         ELSE Num(0),
         group_means |-> [i \in 1..k |-> Mean(groups[i])],
         overall_mean |-> Mean(Concat(groups))]

\* the warnings one_way_anova collects, group by group
RECURSIVE anova_warnings(_, _)
anova_warnings(groups, i) ==
    IF i > Len(groups) THEN <<>>
    ELSE LET norm == validate_normality_assumption(groups[i])
             w1 == AppendIf(<<>>, ~validate_minimum_sample_size(groups[i], 3),
                            Warning("Group", i, <<"has very small sample size.", 0>>))
             w2 == AppendIf(w1, ~norm[1], Warning("Group", i, norm[2]))
         IN  w2 \o anova_warnings(groups, i + 1)

OneWayAnova ==
    /\ pc = "idle"
    /\ Calls("one_way_anova")
    /\ \E groups \in Arg("groups", GroupLists) :
       IF too_few_groups(groups)
       THEN \E alpha \in Arg("alpha", Alphas) :
               Raises([fn |-> "one_way_anova", groups |-> groups, alpha |-> alpha],
                      "ANOVA requires at least 2 groups", <<"set __name__">>,
                      "One-Way ANOVA")
       ELSE \E st \in {anova_statistics(groups)},
               ws \in {anova_warnings(groups, 1)},
               scipy \in SameP(Scipy) :
            \E p_value \in {PValue(scipy, st.f_statistic)},
               typed \in Other(HypAnswers), alpha \in Arg("alpha", Alphas) :
                   Returns([fn |-> "one_way_anova", groups |-> groups, alpha |-> alpha],
                           "test_name" :> "One-Way ANOVA"
                           @@ "f_statistic" :> st.f_statistic
                           @@ "p_value" :> p_value
                           @@ "df_between" :> Num(st.df_between)
                           @@ "df_within" :> Num(st.df_within)
                           @@ "eta_squared" :> st.eta_squared
                           @@ "group_means" :> st.group_means
                           @@ "overall_mean" :> st.overall_mean
                           @@ "interpretation" :> Interpretation(p_value, alpha),
                           ws,
                           <<"set __name__">> \o HypothesisSteps
                           \o <<"print warnings", "f_oneway", "statistics",
                                "print summary", "print results">>,
                           {},
                           get_hypothesis_input(typed),
                           "One-Way ANOVA")

-----------------------------------------------------------------------------
(* tests/nonparametric_tests.py *)

\* a filter that removes nothing
KeepAll(differences) == differences

\* a filter that drops every difference, so that any sample looks all-zero
DropAll(differences) == <<>>

\* [d for d in differences if d != 0]
RECURSIVE NonZero(_)
NonZero(differences) ==
    IF differences = <<>> THEN <<>>
    ELSE (IF differences[1] # 0 THEN <<differences[1]>> ELSE <<>>)
         \o NonZero(Tail(differences))

\* twice the rank (ties share the average rank) of xs[i] among xs
Rank2(xs, i) ==
    2 * Cardinality({j \in 1..Len(xs) : xs[j] < xs[i]})
    + Cardinality({j \in 1..Len(xs) : xs[j] = xs[i]}) + 1

\* stats.wilcoxon(d, alternative='two-sided'): the smaller of the rank sums of
\* the positive and of the negative d, ranking |d|
wilcoxon(d) ==
    LET a == [i \in 1..Len(d) |-> Abs(d[i])]
        r_plus2 == SumSeq([i \in 1..Len(d) |-> IF d[i] > 0 THEN Rank2(a, i) ELSE 0])
        r_minus2 == SumSeq([i \in 1..Len(d) |-> IF d[i] < 0 THEN Rank2(a, i) ELSE 0])
    IN  Fin(IF r_plus2 < r_minus2 THEN r_plus2 ELSE r_minus2, 2)

\* effect size r = |Z| / sqrt(n) of the Wilcoxon tests, computed when n > 10, as
\* its square; <<>> stands for None
wilcoxon_effect_size(statistic, n) ==
    IF n > 10
    THEN <<FAbs(FDiv(FDiv(Sq(FSub(statistic, Fin(n * (n + 1), 4))),
                          Fin(n * (n + 1) * (2 * n + 1), 24)),
                     Num(n)))>>
    ELSE <<>>

\* the warnings of the Wilcoxon tests
wilcoxon_warnings(differences) ==
    LET removed == Len(differences) - Len(NonZero(differences))
        w1 == AppendIf(<<>>, ~validate_minimum_sample_size(differences, 6),
                       Warning("", 0, <<"Small sample size. Consider exact p-values.", 0>>))
        w2 == AppendIf(w1, Len(NonZero(differences)) < Len(differences),
                       Warning("", 0, <<"Removed zero differences.", removed>>))
    IN  AppendIf(w2, Len(NonZero(differences)) = 0,
                 Warning("", 0, <<"All differences are zero. Cannot perform test.", 0>>))

\* Wilcoxon statistics that rank every difference, the zero ones included
wilcoxon_statistics_all(differences) ==
    [n |-> Len(differences),
     statistic |-> wilcoxon(differences),
     median_diff |-> Median(differences),
     effect_size |-> wilcoxon_effect_size(wilcoxon(differences), Len(differences))]

\* what the Wilcoxon tests compute from the differences
wilcoxon_statistics(differences) ==
    LET non_zero_diffs == NonZero(differences)
        n == Len(non_zero_diffs)
    IN  [n |-> n,
         statistic |-> wilcoxon(non_zero_diffs),
         median_diff |-> Median(differences),
         effect_size |-> wilcoxon_effect_size(wilcoxon(non_zero_diffs), n)]

\* the part of the Wilcoxon tests from "Remove zero differences" to the return:
\* `c` is the call without its alpha, `first` the steps before, `extra` the keys
\* one_sample_wilcoxon_test adds
WilcoxonTail(c, test_name, n_key, differences, first, extra) ==
    \E non_zero_diffs \in {NonZero(differences)}, ws \in {wilcoxon_warnings(differences)} :
       IF Len(non_zero_diffs) = 0
       THEN \E typed \in Other(HypAnswers), alpha \in Arg("alpha", Alphas) :
               Returns(c @@ [alpha |-> alpha],
                       "test_name" :> test_name
                       @@ "error" :> "Cannot perform test - all differences are zero",
                       ws, first \o <<"print warnings">>, {},
                       get_hypothesis_input(typed), printName)
       ELSE \E st \in {wilcoxon_statistics(differences)}, scipy \in SameP(Scipy) :
            \E p_value \in {PValue(scipy, st.statistic)},
               typed \in Other(HypAnswers), alpha \in Arg("alpha", Alphas) :
               Returns(c @@ [alpha |-> alpha],
                       "test_name" :> test_name
                       @@ "statistic" :> st.statistic
                       @@ "p_value" :> p_value
                       @@ n_key :> st.n
                       @@ "median_difference" :> st.median_diff
                       @@ "interpretation" :> Interpretation(p_value, alpha)
                       @@ extra
                       @@ (IF st.effect_size # <<>> THEN "effect_size" :> st.effect_size[1]
                           ELSE <<>>),
                       ws,
                       first \o <<"print warnings", "wilcoxon", "statistics",
                                  "print summary", "print results">>,
                       {},
                       get_hypothesis_input(typed), printName)

\* wilcoxon_signed_rank_test(data1): the one-sample form, which asks for the
\* hypothesized median
WilcoxonSignedRankOneSample ==
    /\ pc = "idle"
    /\ Calls("wilcoxon_signed_rank_test")
    /\ IF repeats = <<>> THEN TRUE ELSE repeats.call.data2 = <<>>
    /\ \E data1 \in Arg("data1", Samples), answer \in SameAnswer(NumberAnswers),
          bad \in SameBad(0..MaxBadInputs) :
       WilcoxonTail([fn |-> "wilcoxon_signed_rank_test", data1 |-> data1, data2 |-> <<>>,
                     hyp_median |-> ParseAnswer(answer)],
                    "One-Sample Wilcoxon Signed-Rank Test", "n_pairs",
                    [i \in 1..Len(data1) |-> data1[i] - ParseAnswer(answer)],
                    PromptSteps("input median", bad) \o <<"differences">>
                    \o HypothesisSteps,
                    <<>>)

\* wilcoxon_signed_rank_test(data1, data2): the paired form
WilcoxonSignedRankPaired ==
    /\ pc = "idle"
    /\ Calls("wilcoxon_signed_rank_test")
    /\ IF repeats = <<>> THEN TRUE ELSE repeats.call.data2 # <<>>
    /\ \E data1 \in Arg("data1", PairSamples), data2 \in GivenArg("data2", PairSamples) :
       IF ~validate_equal_sample_sizes(data1, data2)
       THEN \E alpha \in Arg("alpha", Alphas) :
               Raises([fn |-> "wilcoxon_signed_rank_test", data1 |-> data1,
                       data2 |-> <<data2>>, alpha |-> alpha],
                      "Paired test requires equal sample sizes", <<>>, printName)
       ELSE WilcoxonTail([fn |-> "wilcoxon_signed_rank_test", data1 |-> data1,
                          data2 |-> <<data2>>],
                         "Paired-Sample Wilcoxon Signed-Rank Test", "n_pairs",
                         Differences(data1, data2),
                         <<"differences">> \o HypothesisSteps,
                         <<>>)

OneSampleWilcoxonTest ==
    /\ pc = "idle"
    /\ Calls("one_sample_wilcoxon_test")
    /\ \E data \in Arg("data", Samples), hypothesized_median \in Arg("hypothesized_median", Values) :
       WilcoxonTail([fn |-> "one_sample_wilcoxon_test", data |-> data,
                     hypothesized_median |-> hypothesized_median],
                    "One-Sample Wilcoxon Signed-Rank Test", "n_observations",
                    [i \in 1..Len(data) |-> data[i] - hypothesized_median],
                    HypothesisSteps \o <<"differences">>,
                    "sample_median" :> Median(data)
                    @@ "hypothesized_median" :> Num(hypothesized_median))

\* scipy's tiecorrect: 1 - sum (t^3 - t) / (N^3 - N) over the groups of t tied values
TieCorrect(all) ==
    LET N == Len(all)
        cnt(v) == Cardinality({i \in 1..N : all[i] = v})
        ties == SumSeq([i \in 1..N |-> cnt(all[i]) * cnt(all[i]) - 1])
    IN  IF N < 2 THEN Num(1) ELSE FSub(Num(1), Fin(ties, N * N * N - N))

\* the rank sum of group i among all values, doubled
GroupRankSum2(groups, i) ==
    LET all == Concat(groups)
        before == Len(Concat(SubSeq(groups, 1, i - 1)))
    IN  SumSeq([j \in 1..Len(groups[i]) |-> Rank2(all, before + j)])

\* stats.kruskal(*groups): H = (12 / (N (N + 1)) * sum R_i^2 / n_i - 3 (N + 1)) / ties;
\* <<>> when all numbers are identical (ties = 0), where scipy raises ValueError
kruskal(groups) ==
    LET all == Concat(groups)
        N == Len(all)
        ties == TieCorrect(all)
        ssbn == FSum([i \in 1..Len(groups) |->
                        Fin(GroupRankSum2(groups, i) * GroupRankSum2(groups, i),
                            4 * Len(groups[i]))])
        h == FSub(FMul(Fin(12, N * (N + 1)), ssbn), Num(3 * (N + 1)))
    IN  IF IsZero(ties) THEN <<>> ELSE <<FDiv(h, ties)>>

\* max(0, x) of Python: x when x > 0, else 0
PyMax0(x) == IF FGt(x, Num(0)) THEN x ELSE Num(0)

\* what kruskal_wallis_test computes once stats.kruskal has returned H
kruskal_statistics(groups, H) ==
    LET k == Len(groups)
        n_total == Len(Concat(groups))
    IN  [k |-> k,
         n_total |-> n_total,
         group_medians |-> [i \in 1..k |-> Median(groups[i])],
         eta_squared |-> PyMax0(FDiv(FAdd(FSub(H, Num(k)), Num(1)), Num(n_total - k))),
         zerodiv |-> ZeroAt("nonparametric_tests.py:323", Num(n_total - k))]

\* the warnings kruskal_wallis_test collects, group by group
RECURSIVE kruskal_warnings(_, _)
kruskal_warnings(groups, i) ==
    IF i > Len(groups) THEN <<>>
    ELSE AppendIf(<<>>, ~validate_minimum_sample_size(groups[i], 5),
                  Warning("Group", i, <<"has small sample size.", 0>>))
         \o kruskal_warnings(groups, i + 1)

KruskalWallisTest ==
    /\ pc = "idle"
    /\ Calls("kruskal_wallis_test")
    /\ \E groups \in Arg("groups", GroupLists) :
       IF too_few_groups(groups)
       THEN \E alpha \in Arg("alpha", Alphas) :
               Raises([fn |-> "kruskal_wallis_test", groups |-> groups, alpha |-> alpha],
                      "Kruskal-Wallis test requires at least 2 groups", <<>>, printName)
       ELSE \E H \in {kruskal(groups)}, ws \in {kruskal_warnings(groups, 1)} :
            IF H = <<>>
            THEN \E typed \in Other(HypAnswers), alpha \in Arg("alpha", Alphas) :
                    Returns([fn |-> "kruskal_wallis_test", groups |-> groups,
                             alpha |-> alpha],
                            "test_name" :> "Kruskal-Wallis H Test"
                            @@ "error" :> "Test failed: All numbers are identical in kruskal",
                            ws, HypothesisSteps \o <<"print warnings", "kruskal">>, {},
                            get_hypothesis_input(typed), printName)
            ELSE \E st \in {kruskal_statistics(groups, H[1])}, scipy \in SameP(Scipy) :
                 \E p_value \in {PValue(scipy, H[1])},
                    typed \in Other(HypAnswers), alpha \in Arg("alpha", Alphas) :
                    Returns([fn |-> "kruskal_wallis_test", groups |-> groups,
                             alpha |-> alpha],
                            "test_name" :> "Kruskal-Wallis H Test"
                            @@ "h_statistic" :> H[1]
                            @@ "p_value" :> p_value
                            @@ "degrees_of_freedom" :> Num(st.k - 1)
                            @@ "n_groups" :> st.k
                            @@ "total_n" :> st.n_total
                            @@ "group_medians" :> st.group_medians
                            @@ "eta_squared" :> st.eta_squared
                            @@ "interpretation" :> Interpretation(p_value, alpha),
                            ws,
                            HypothesisSteps
                            \o <<"print warnings", "kruskal", "statistics",
                                 "print summary", "print results">>,
                            st.zerodiv,
                            get_hypothesis_input(typed), printName)

\* the samples given to mann_whitney_test: it has no guard, so the empty list
\* reaches scipy
MannWhitneySamples == PairSamples \cup {<<>>}

\* stats.mannwhitneyu(x, y, alternative='two-sided'): U of x, its rank sum in
\* the pooled sample less n1 (n1 + 1) / 2; <<>> for an empty sample, where scipy
\* raises ValueError
mannwhitneyu(x, y) ==
    LET all == x \o y
        n1 == Len(x)
        r1_2 == SumSeq([i \in 1..n1 |-> Rank2(all, i)])
    IN  IF x = <<>> \/ y = <<>> THEN <<>>
        ELSE <<Fin(r1_2 - n1 * (n1 + 1), 2)>>

\* what mann_whitney_test computes once stats.mannwhitneyu has returned U; the
\* effect size |z| / sqrt(N) as its square
mann_whitney_statistics(data1, data2, U) ==
    LET n1 == Len(data1)
        n2 == Len(data2)
        n_total == n1 + n2
        expected_u == Fin(n1 * n2, 2)
        var_u == Fin(n1 * n2 * (n1 + n2 + 1), 12)
    IN  [n1 |-> n1,
         n2 |-> n2,
         median1 |-> Median(data1),
         median2 |-> Median(data2),
         effect_size |-> FDiv(FDiv(FAbs(Sq(FSub(U, expected_u))), var_u), Num(n_total)),
         prob_superiority |-> FDiv(U, Num(n1 * n2))]

\* the warnings mann_whitney_test collects
mann_whitney_warnings(data1, data2) ==
    AppendIf(<<>>, ~validate_minimum_sample_size(data1, 3)
                   \/ ~validate_minimum_sample_size(data2, 3),
             Warning("", 0, <<"Very small sample sizes. Results may be unreliable.", 0>>))

MannWhitneyTest ==
    /\ pc = "idle"
    /\ Calls("mann_whitney_test")
    /\ \E data1 \in Arg("data1", MannWhitneySamples), data2 \in Arg("data2", MannWhitneySamples) :
       \E U \in {mannwhitneyu(data1, data2)},
          ws \in {mann_whitney_warnings(data1, data2)} :
       IF U = <<>>
       THEN \E typed \in Other(HypAnswers), alpha \in Arg("alpha", Alphas) :
               Returns([fn |-> "mann_whitney_test", data1 |-> data1, data2 |-> data2,
                        alpha |-> alpha],
                       "test_name" :> "Mann-Whitney U Test"
                       @@ "error" :> "Test failed: x and y must be of nonzero size",
                       ws, HypothesisSteps \o <<"print warnings", "mannwhitneyu">>, {},
                       get_hypothesis_input(typed), printName)
       ELSE \E st \in {mann_whitney_statistics(data1, data2, U[1])}, scipy \in SameP(Scipy) :
            \E p_value \in {PValue(scipy, U[1])},
               typed \in Other(HypAnswers), alpha \in Arg("alpha", Alphas) :
               Returns([fn |-> "mann_whitney_test", data1 |-> data1, data2 |-> data2,
                        alpha |-> alpha],
                       "test_name" :> "Mann-Whitney U Test"
                       @@ "u_statistic" :> U[1]
                       @@ "p_value" :> p_value
                       @@ "n1" :> st.n1
                       @@ "n2" :> st.n2
                       @@ "median_1" :> st.median1
                       @@ "median_2" :> st.median2
                       @@ "effect_size" :> st.effect_size
                       @@ "probability_superiority" :> st.prob_superiority
                       @@ "interpretation" :> Interpretation(p_value, alpha),
                       ws,
                       HypothesisSteps
                       \o <<"print warnings", "mannwhitneyu", "statistics",
                            "print summary", "print results">>,
                       {},
                       get_hypothesis_input(typed), printName)

-----------------------------------------------------------------------------
(* tests/chi_square_tests.py *)

\* the numbers a caller passes as observed frequencies: the menu parses them
\* with float(), so they need not be whole or non-negative
ObservedValues == {Fin(-3, 2), Fin(-1, 2), Num(0), Fin(5, 2), Num(15)}

\* the numbers a caller passes as expected frequencies
ExpectedValues == {Num(0), Fin(5, 2), Num(15)}

ObservedLists == UNION {[1..k -> ObservedValues] : k \in 0..MaxCats}

\* expected: None (<<>>), or a list e (<<e>>)
ExpectedLists ==
    {<<>>} \cup {<<e>> : e \in UNION {[1..k -> ExpectedValues] : k \in 1..MaxCats}}

\* [int(x) for x in observed]
IntList(observed) == [i \in 1..Len(observed) |-> PyInt(observed[i])]

\* [total / len(observed)] * len(observed)
EqualExpected(observed) ==
    [i \in 1..Len(observed) |-> Fin(SumSeq(observed), Len(observed))]

\* stats.chisquare(f_obs, f_exp): sum of (o - e)^2 / e; <<>> when the two sums
\* differ, where scipy raises ValueError
chisquare(f_obs, f_exp) ==
    IF FSum(f_exp) # Num(SumSeq(f_obs)) THEN <<>>
    ELSE <<FSum([i \in 1..Len(f_obs) |->
                   FDiv(FMul(FSub(Num(f_obs[i]), f_exp[i]), FSub(Num(f_obs[i]), f_exp[i])),
                        f_exp[i])])>>

\* stats.chi2.sf(statistic, df), the p-value of the chi-square tests: nan
\* unless df > 0
Chi2PValue(scipy, statistic, df) == IF df > 0 THEN PValue(scipy, statistic) ELSE NaN

\* what chi_square_goodness_of_fit computes once stats.chisquare has returned;
\* cramers_v and the standardized residuals as their signed squares
goodness_of_fit_statistics(observed, expected, statistic) ==
    LET df == Len(observed) - 1
        total_observed == SumSeq(observed)
    IN  [df |-> df,
         cramers_v |-> IF df > 0 THEN FDiv(statistic, Num(total_observed * df))
                       ELSE Num(0),
         residuals |-> [i \in 1..Len(observed) |->
                          FDiv(Sq(FSub(Num(observed[i]), expected[i])), expected[i])],
         zerodiv |-> (IF df > 0
                      THEN ZeroAt("chi_square_tests.py:78", Num(total_observed * df))
                      ELSE {})
                     \cup UNION {ZeroAt("chi_square_tests.py:81", expected[i]) :
                                   i \in 1..Len(observed)}]

\* the warnings chi_square_goodness_of_fit collects
goodness_of_fit_warnings(observed, expected) ==
    LET w1 == AppendIf(<<>>, \E i \in 1..Len(expected) : FLt(expected[i], Num(5)),
                       Warning("", 0, <<"Some expected frequencies < 5. Results may be unreliable.", 0>>))
    IN  AppendIf(w1, SumSeq(observed) < 30,
                 Warning("", 0, <<"Total sample size < 30. Consider exact tests.", 0>>))

ChiSquareGoodnessOfFit ==
    /\ pc = "idle"
    /\ Calls("chi_square_goodness_of_fit")
    /\ \E observed_arg \in Arg("observed", ObservedLists),
          expected_arg \in Arg("expected", ExpectedLists), alpha \in Arg("alpha", Alphas) :
       LET c == [fn |-> "chi_square_goodness_of_fit", observed |-> observed_arg,
                 expected |-> expected_arg, alpha |-> alpha]
           observed == IntList(observed_arg)
           given == expected_arg # <<>>
           expected == IF given THEN expected_arg[1] ELSE EqualExpected(observed)
           first == IF given THEN <<>> ELSE <<"print expected">>
       IN  IF ~validate_categorical_data(observed_arg)
           THEN Raises(c, "Observed data must be non-negative integers (frequencies)",
                       <<>>, printName)
           ELSE IF given /\ Len(expected) # Len(observed)
           THEN Raises(c, "Observed and expected must have the same length",
                       <<>>, printName)
           ELSE IF given /\ ~validate_categorical_data(expected)
           THEN Raises(c, "Expected data must be non-negative numbers", <<>>, printName)
           ELSE \E chi2 \in {chisquare(observed, expected)},
                   ws \in {goodness_of_fit_warnings(observed, expected)} :
                IF chi2 = <<>>
                THEN \E typed \in Other(HypAnswers) :
                     Returns(c,
                             "test_name" :> "Chi-Square Goodness of Fit Test"
                             @@ "error" :> "Test failed: the sums of the observed and of the expected frequencies must agree",
                             ws,
                             first \o HypothesisSteps \o <<"print warnings", "chisquare">>,
                             {}, get_hypothesis_input(typed), printName)
                ELSE \E st \in {goodness_of_fit_statistics(observed, expected, chi2[1])},
                        scipy \in SameP(Scipy) :
                     \E p_value \in {Chi2PValue(scipy, chi2[1], Len(observed) - 1)},
                        typed \in Other(HypAnswers) :
                     Returns(c,
                             "test_name" :> "Chi-Square Goodness of Fit Test"
                             @@ "chi2_statistic" :> chi2[1]
                             @@ "p_value" :> p_value
                             @@ "degrees_of_freedom" :> Num(st.df)
                             @@ "observed_frequencies" :> observed
                             @@ "expected_frequencies" :> expected
                             @@ "cramers_v" :> st.cramers_v
                             @@ "standardized_residuals" :> st.residuals
                             @@ "interpretation" :> Interpretation(p_value, alpha),
                             ws,
                             first \o HypothesisSteps
                             \o <<"print warnings", "chisquare", "statistics",
                                  "print table", "print results">>,
                             st.zerodiv \cup UNION {ZeroAt("chi_square_tests.py:66", expected[i]) :
                                                      i \in 1..Len(observed)},
                             get_hypothesis_input(typed), printName)

\* a contingency table of `rows` rows and `cols` columns: `corner` in its first
\* cell, `last` down its last column, `fill` elsewhere
Table(rows, cols, corner, last, fill) ==
    [i \in 1..rows |->
        [j \in 1..cols |-> IF i = 1 /\ j = 1 THEN corner
                           ELSE IF j = cols THEN last
                           ELSE fill]]

\* the arguments given to chi_square_association: a list of equally long rows,
\* a list of rows of different lengths, or a flat list of numbers (held as
\* its only row)
ContingencyTables ==
    {[nested |-> TRUE, rows |-> Table(r, c, corner, last, fill)] :
        r \in 1..MaxRows, c \in 1..MaxCols,
        corner \in {-1, 0, 10}, last \in {0, 10}, fill \in {0, 10}}
    \cup {[nested |-> TRUE, rows |-> <<<<10, 10>>, <<10>>>>],
          [nested |-> FALSE, rows |-> <<<<10, 10>>>>]}

\* np.array(contingency_table, dtype=float).ndim; 0 stands for the ValueError
\* numpy raises for rows of different lengths
Ndim(t) ==
    IF ~t.nested THEN 1
    ELSE IF \A i \in 1..Len(t.rows) : Len(t.rows[i]) = Len(t.rows[1]) THEN 2
    ELSE 0

RowTotal(table, i) == SumSeq(table[i])

ColTotal(table, j) == SumSeq([i \in 1..Len(table) |-> table[i][j]])

TableTotal(table) == SumSeq([i \in 1..Len(table) |-> RowTotal(table, i)])

\* np.outer(row_totals, col_totals) / total
ExpectedTable(table) ==
    [i \in 1..Len(table) |->
        [j \in 1..Len(table[1]) |->
            FDiv(Num(RowTotal(table, i) * ColTotal(table, j)), Num(TableTotal(table)))]]

\* the cells of a table
Cells(table) == {<<i, j>> : i \in 1..Len(table), j \in 1..Len(table[1])}

\* x moved toward e by at most 0.5: the continuity correction scipy applies
\* to the observed cells when dof = 1
Yates(x, e) ==
    LET diff == FSub(e, x)
        magnitude == IF FLt(FAbs(diff), Fin(1, 2)) THEN FAbs(diff) ELSE Fin(1, 2)
    IN  IF IsNaN(diff) THEN NaN
        ELSE IF FGt(diff, Num(0)) THEN FAdd(x, magnitude)
        ELSE IF FLt(diff, Num(0)) THEN FSub(x, magnitude)
        ELSE x

\* the sum of f over the cells listed in cs
RECURSIVE CellSum(_, _)
CellSum(f, cs) ==
    IF cs = {} THEN Num(0)
    ELSE LET c == CHOOSE c \in cs : TRUE
         IN  FAdd(f[c], CellSum(f, cs \ {c}))

\* stats.chi2_contingency(table): the statistic, sum of (o - e)^2 / e with the
\* continuity correction when dof = 1; <<>> when an expected frequency is zero,
\* where scipy raises ValueError
chi2_contingency(table) ==
    LET expected == ExpectedTable(table)
        dof == (Len(table) - 1) * (Len(table[1]) - 1)
        term == [c \in Cells(table) |->
                    LET e == expected[c[1]][c[2]]
                        o == IF dof = 1 THEN Yates(Num(table[c[1]][c[2]]), e)
                             ELSE Num(table[c[1]][c[2]])
                    IN  FDiv(FMul(FSub(o, e), FSub(o, e)), e)]
    IN  IF \E c \in Cells(table) : IsZero(expected[c[1]][c[2]]) THEN <<>>
        ELSE <<CellSum(term, Cells(table))>>

\* min(rows - 1, cols - 1)
MinSide(table) ==
    IF Len(table) < Len(table[1]) THEN Len(table) - 1 ELSE Len(table[1]) - 1

\* what chi_square_association computes once stats.chi2_contingency has
\* returned; the three coefficients as their squares, phi as <<>> for None
association_statistics(table, statistic) ==
    LET rows == Len(table)
        cols == Len(table[1])
        total == Num(TableTotal(table))
    IN  [dof |-> (rows - 1) * (cols - 1),
         cramers_v |-> FDiv(statistic, FMul(total, Num(MinSide(table)))),
         phi |-> IF rows = 2 /\ cols = 2 THEN <<FDiv(statistic, total)>> ELSE <<>>,
         contingency_coeff |-> FDiv(statistic, FAdd(statistic, total)),
         zerodiv |-> ZeroAt("chi_square_tests.py:146", total)
                     \cup ZeroAt("chi_square_tests.py:170", total)
                     \cup (IF rows = 2 /\ cols = 2
                           THEN ZeroAt("chi_square_tests.py:173", total) ELSE {})
                     \cup ZeroAt("chi_square_tests.py:176", FAdd(statistic, total))]

\* the warnings chi_square_association collects
association_warnings(table) ==
    LET expected == ExpectedTable(table)
        w1 == AppendIf(<<>>, \E c \in Cells(table) : FLt(expected[c[1]][c[2]], Num(5)),
                       Warning("", 0, <<"Some expected frequencies < 5. Consider Fisher's exact test.", 0>>))
    IN  AppendIf(w1, TableTotal(table) < 30,
                 Warning("", 0, <<"Total sample size < 30. Results may be unreliable.", 0>>))

\* chi_square_association(contingency_table, alpha), called as c after the
\* steps `before`
chi_square_association(c, before, contingency_table, alpha) ==
    LET table == contingency_table.rows
    IN  IF Ndim(contingency_table) = 0
        THEN Raises(c, "setting an array element with a sequence", before, printName)
        ELSE IF Ndim(contingency_table) # 2
        THEN Raises(c, "Contingency table must be 2-dimensional", before, printName)
        ELSE IF Len(table) < 2 \/ Len(table[1]) < 2
        THEN Raises(c, "Contingency table must be at least 2x2", before, printName)
        ELSE IF \E cell \in Cells(table) : table[cell[1]][cell[2]] < 0
        THEN Raises(c, "All frequencies must be non-negative", before, printName)
        ELSE \E chi2 \in {chi2_contingency(table)},
                ws \in {association_warnings(table)} :
             IF chi2 = <<>>
             THEN \E typed \in Other(HypAnswers) :
                  Returns(c,
                          "test_name" :> "Chi-Square Test of Association"
                          @@ "error" :> "Test failed: The internally computed table of expected frequencies has a zero element",
                          ws,
                          before \o HypothesisSteps \o <<"print warnings", "chi2_contingency">>,
                          ZeroAt("chi_square_tests.py:146", Num(TableTotal(table))),
                          get_hypothesis_input(typed), printName)
             ELSE \E st \in {association_statistics(table, chi2[1])}, scipy \in SameP(Scipy) :
                  \E p_value \in {PValue(scipy, chi2[1])}, typed \in Other(HypAnswers) :
                  Returns(c,
                          "test_name" :> "Chi-Square Test of Association"
                          @@ "chi2_statistic" :> chi2[1]
                          @@ "p_value" :> p_value
                          @@ "degrees_of_freedom" :> Num(st.dof)
                          @@ "cramers_v" :> st.cramers_v
                          @@ "contingency_coefficient" :> st.contingency_coeff
                          @@ "interpretation" :> Interpretation(p_value, alpha)
                          @@ (IF st.phi # <<>> THEN "phi_coefficient" :> st.phi[1]
                              ELSE <<>>),
                          ws,
                          before \o HypothesisSteps
                          \o <<"print warnings", "chi2_contingency", "statistics",
                               "print table", "print results">>,
                          st.zerodiv,
                          get_hypothesis_input(typed), printName)

ChiSquareAssociation ==
    /\ pc = "idle"
    /\ Calls("chi_square_association")
    /\ \E contingency_table \in Arg("contingency_table", ContingencyTables),
          alpha \in Arg("alpha", Alphas) :
       chi_square_association([fn |-> "chi_square_association",
                               contingency_table |-> contingency_table, alpha |-> alpha],
                              <<>>, contingency_table, alpha)

-----------------------------------------------------------------------------
(* tests/correlation_tests.py *)

\* the points 0, 1, 2, ... and their images under y = 2x + 1
LinearX == [i \in 1..MaxLen |-> i - 1]

LinearY == [i \in 1..MaxLen |-> 2 * LinearX[i] + 1]

\* the x and y data given to the correlation and regression tests
CorrelationSamples == PairSamples \cup {LinearX, LinearY}

\* n * sum(x y) - sum(x) sum(y): n^2 times the covariance (ddof = 0) of x and y
CoMoment(x, y) ==
    Len(x) * SumSeq([i \in 1..Len(x) |-> x[i] * y[i]]) - SumSeq(x) * SumSeq(y)

\* the Pearson correlation of x and y, as its signed square
PearsonSq(x, y) ==
    FDiv(Num(Sign(CoMoment(x, y)) * CoMoment(x, y) * CoMoment(x, y)),
         Num(CoMoment(x, x) * CoMoment(y, y)))

\* twice the ranks of the values of data
Ranks2(data) == [i \in 1..Len(data) |-> Rank2(data, i)]

\* stats.spearmanr(x, y): the Pearson correlation of the ranks, as its signed square
spearmanr(x, y) == PearsonSq(Ranks2(x), Ranks2(y))

\* the statistic a correlation r over n points is tested with,
\* r * sqrt((n - 2) / ((1 + r) (1 - r))), as its signed square
CorrelationT(rSq, n) == FDiv(FMul(rSq, Num(n - 2)), FSub(Num(1), FAbs(rSq)))

\* |correlation| < bound, for a correlation given as its signed square
AbsBelow(rSq, bound) == FLt(FAbs(rSq), FMul(bound, bound))

\* the Fisher interval of spearmans_rank_correlation: <<>> for None, else the
\* classes of its bounds; with n = 3 the standard error 1 / sqrt(n - 3) is
\* infinite, the lower bound is -1 and the upper one inf / inf
spearman_interval(correlation, n) ==
    IF AbsBelow(correlation, Fin(999, 1000))
    THEN IF n = 3 THEN <<[lower |-> "-1", upper |-> "nan"]>>
         ELSE <<[lower |-> "fin", upper |-> "fin"]>>
    ELSE <<>>

\* the strength spearmans_rank_correlation names
correlation_strength(correlation) ==
    IF AbsBelow(correlation, Fin(1, 10)) THEN "negligible"
    ELSE IF AbsBelow(correlation, Fin(3, 10)) THEN "weak"
    ELSE IF AbsBelow(correlation, Fin(5, 10)) THEN "moderate"
    ELSE IF AbsBelow(correlation, Fin(7, 10)) THEN "strong"
    ELSE "very strong"

\* len(data) - len(set(data))
Ties(data) == Len(data) - Cardinality({data[i] : i \in 1..Len(data)})

\* the warnings spearmans_rank_correlation collects
spearman_warnings(x_data, y_data) ==
    LET w1 == AppendIf(<<>>, Len(x_data) < 10,
                       Warning("", 0, <<"Small sample size. Results may be unreliable.", 0>>))
        w2 == AppendIf(w1, 10 * Ties(x_data) > Len(x_data),
                       Warning("", 0, <<"Many ties in X variable. Consider alternative methods.", 0>>))
    IN  AppendIf(w2, 10 * Ties(y_data) > Len(y_data),
                 Warning("", 0, <<"Many ties in Y variable. Consider alternative methods.", 0>>))

SpearmansRankCorrelation ==
    /\ pc = "idle"
    /\ Calls("spearmans_rank_correlation")
    /\ \E x_data \in Arg("x_data", CorrelationSamples),
          y_data \in Arg("y_data", CorrelationSamples), alpha \in Arg("alpha", Alphas) :
       LET c == [fn |-> "spearmans_rank_correlation", x_data |-> x_data,
                 y_data |-> y_data, alpha |-> alpha]
           valid == validate_correlation_data(x_data, y_data)
       IN  IF ~valid[1] THEN Raises(c, valid[2], <<>>, printName)
           ELSE \E correlation \in {spearmanr(x_data, y_data)},
                   ws \in {spearman_warnings(x_data, y_data)}, scipy \in SameP(Scipy) :
                \E p_value \in {PValue(scipy, CorrelationT(correlation, Len(x_data)))},
                   ci \in {spearman_interval(correlation, Len(x_data))},
                   typed \in Other(HypAnswers) :
                Returns(c,
                        "test_name" :> "Spearman's Rank Correlation"
                        @@ "correlation_coefficient" :> correlation
                        @@ "p_value" :> p_value
                        @@ "n_pairs" :> Len(x_data)
                        @@ "correlation_strength" :> correlation_strength(correlation)
                        @@ "interpretation" :> Interpretation(p_value, alpha)
                        @@ (IF ci # <<>> THEN "confidence_interval" :> ci[1] ELSE <<>>),
                        ws,
                        HypothesisSteps
                        \o <<"print warnings", "spearmanr", "statistics",
                             "print summary", "print results">>,
                        IF ci # <<>>
                        THEN ZeroAt("correlation_tests.py:72", Num(Len(x_data) - 3))
                        ELSE {},
                        get_hypothesis_input(typed), printName)

\* stats.linregress(x, y): slope, intercept, the correlation r as its signed
\* square, and the statistic its p-value is computed from (infinite when |r| = 1,
\* where the p-value is 0)
linregress(x, y) ==
    LET slope == FDiv(Num(CoMoment(x, y)), Num(CoMoment(x, x)))
    IN  [slope |-> slope,
         intercept |-> FSub(Mean(y), FMul(slope, Mean(x))),
         r_value |-> PearsonSq(x, y),
         t |-> CorrelationT(PearsonSq(x, y), Len(x))]

\* y - (slope * x + intercept)
Residuals(x, y, fit) ==
    [i \in 1..Len(x) |-> FSub(Num(y[i]), FAdd(FMul(fit.slope, Num(x[i])), fit.intercept))]

\* np.sum(v ** 2)
FSumSq(v) == FSum([i \in 1..Len(v) |-> FMul(v[i], v[i])])

\* np.diff(v)
Diff(v) == [i \in 1..(Len(v) - 1) |-> FSub(v[i + 1], v[i])]

\* the interval coefficient_of_determination gives for R^2 when R^2 > 0 and
\* n > 10: <<>> for None, else the classes of its bounds; with |r| = 1 the
\* transformed correlation is infinite and both bounds are inf / inf
r2_interval(r_squared, n) ==
    IF FGt(r_squared, Num(0)) /\ n > 10
    THEN IF r_squared = Num(1) THEN <<[lower |-> "nan", upper |-> "nan"]>>
         ELSE <<[lower |-> "fin", upper |-> "fin"]>>
    ELSE <<>>

\* what coefficient_of_determination computes from the fit; rmse as its square
determination_statistics(x, y, fit) ==
    LET n == Len(x)
        r_squared == FAbs(fit.r_value)
        ss_res == FSumSq(Residuals(x, y, fit))
        ss_tot == SumSqDev(y)
        mse == FDiv(ss_res, Num(n - 2))
    IN  [r_squared |-> r_squared,
         adj_r_squared |-> FSub(Num(1), FDiv(FMul(FSub(Num(1), r_squared), Num(n - 1)),
                                             Num(n - 2))),
         f_statistic |-> IF FGt(ss_tot, Num(0))
                         THEN FDiv(FSub(ss_tot, ss_res), FDiv(ss_res, Num(n - 2)))
                         ELSE Num(0),
         rmse |-> mse,
         r2_ci |-> r2_interval(r_squared, n),
         zerodiv |-> (IF FGt(ss_tot, Num(0))
                      THEN ZeroAt("correlation_tests.py:160", FDiv(ss_res, Num(n - 2)))
                      ELSE {})
                     \cup (IF FGt(r_squared, Num(0)) /\ n > 10
                           THEN ZeroAt("correlation_tests.py:171", FSub(Num(1), r_squared))
                           ELSE {})]

CoefficientOfDetermination ==
    /\ pc = "idle"
    /\ Calls("coefficient_of_determination")
    /\ \E x_data \in Arg("x_data", CorrelationSamples),
          y_data \in Arg("y_data", CorrelationSamples), alpha \in Arg("alpha", Alphas) :
       LET c == [fn |-> "coefficient_of_determination", x_data |-> x_data,
                 y_data |-> y_data, alpha |-> alpha]
           valid == validate_correlation_data(x_data, y_data)
       IN  IF ~valid[1] THEN Raises(c, valid[2], <<>>, printName)
           ELSE \E fit \in {linregress(x_data, y_data)} :
                \E st \in {determination_statistics(x_data, y_data, fit)},
                   scipy \in SameP(Scipy) :
                \E p_value \in {PValue(scipy, fit.t)}, typed \in Other(HypAnswers) :
                Returns(c,
                        "test_name" :> "Coefficient of Determination"
                        @@ "r_squared" :> st.r_squared
                        @@ "adjusted_r_squared" :> st.adj_r_squared
                        @@ "correlation_coefficient" :> fit.r_value
                        @@ "p_value" :> p_value
                        @@ "f_statistic" :> st.f_statistic
                        @@ "slope" :> fit.slope
                        @@ "intercept" :> fit.intercept
                        @@ "rmse" :> st.rmse
                        @@ "n_observations" :> Len(x_data)
                        @@ "interpretation" :> Interpretation(p_value, alpha)
                        @@ (IF st.r2_ci # <<>>
                            THEN "r2_confidence_interval" :> st.r2_ci[1] ELSE <<>>),
                        <<>>,
                        HypothesisSteps
                        \o <<"linregress", "statistics", "print regression",
                             "print summary", "print results">>,
                        st.zerodiv,
                        get_hypothesis_input(typed), printName)

\* what linear_regression_tests computes from the fit; the standard errors and
\* the t statistic of the slope as their (signed) squares. The p-value of the
\* slope is that of F = t^2, or 1 when t is set to 0
regression_statistics(x, y, fit, scipy) ==
    LET n == Len(x)
        residuals == Residuals(x, y, fit)
        ss_res == FSumSq(residuals)
        ss_tot == SumSqDev(y)
        ss_reg == FSub(ss_tot, ss_res)
        df_res == n - 2
        df_tot == n - 1
        ms_reg == ss_reg
        ms_res == IF df_res > 0 THEN FDiv(ss_res, Num(df_res)) ELSE Num(0)
        fitted == FGt(ms_res, Num(0))
        f_statistic == IF fitted THEN FDiv(ms_reg, ms_res) ELSE Num(0)
        se_slope == FDiv(ms_res, SumSqDev(x))
        t_statistic == IF FGt(se_slope, Num(0)) THEN FDiv(Sq(fit.slope), se_slope)
                       ELSE Num(0)
    IN  [r_squared |-> FAbs(fit.r_value),
         adj_r_squared |-> IF FGt(ss_tot, Num(0))
                           THEN FSub(Num(1), FDiv(ms_res, FDiv(ss_tot, Num(df_tot))))
                           ELSE Num(0),
         f_statistic |-> f_statistic,
         f_p_value |-> IF fitted THEN PValue(scipy, f_statistic) ELSE Num(1),
         t_statistic |-> t_statistic,
         t_p_value |-> IF IsZero(t_statistic) THEN Num(1) ELSE PValue(scipy, t_statistic),
         se_slope |-> se_slope,
         slope_ci |-> Interval(fit.slope, HalfWidth(TQuantile(Num(df_res)), se_slope)),
         se_regression |-> ms_res,
         df_res |-> df_res,
         dw_statistic |-> IF n > 2
                          THEN <<FDiv(FSumSq(Diff(residuals)), ss_res)>>
                          ELSE <<>>,
         zerodiv |-> ZeroAt("correlation_tests.py:285", SumSqDev(x))
                     \cup (IF n > 2 THEN ZeroAt("correlation_tests.py:302", ss_res)
                           ELSE {})]

\* the warnings linear_regression_tests collects
regression_warnings(x_data) ==
    AppendIf(<<>>, Len(x_data) < 10,
             Warning("", 0, <<"Small sample size. Results may be unreliable.", 0>>))

LinearRegressionTests ==
    /\ pc = "idle"
    /\ Calls("linear_regression_tests")
    /\ \E x_data \in Arg("x_data", CorrelationSamples),
          y_data \in Arg("y_data", CorrelationSamples), alpha \in Arg("alpha", Alphas) :
       LET c == [fn |-> "linear_regression_tests", x_data |-> x_data,
                 y_data |-> y_data, alpha |-> alpha]
           valid == validate_correlation_data(x_data, y_data)
       IN  IF ~valid[1] THEN Raises(c, valid[2], <<>>, printName)
           ELSE \E fit \in {linregress(x_data, y_data)}, scipy \in SameP(Scipy) :
                \E st \in {regression_statistics(x_data, y_data, fit, scipy)},
                   ws \in {regression_warnings(x_data)}, typed \in Other(HypAnswers) :
                Returns(c,
                        "test_name" :> "Linear Regression Analysis"
                        @@ "slope" :> fit.slope
                        @@ "intercept" :> fit.intercept
                        @@ "r_squared" :> st.r_squared
                        @@ "adjusted_r_squared" :> st.adj_r_squared
                        @@ "correlation_coefficient" :> fit.r_value
                        @@ "f_statistic" :> st.f_statistic
                        @@ "f_p_value" :> st.f_p_value
                        @@ "t_statistic_slope" :> st.t_statistic
                        @@ "slope_p_value" :> st.t_p_value
                        @@ "slope_std_error" :> st.se_slope
                        @@ "slope_confidence_interval" :> st.slope_ci
                        @@ "regression_std_error" :> st.se_regression
                        @@ "n_observations" :> Len(x_data)
                        @@ "degrees_of_freedom" :> st.df_res
                        @@ "interpretation" :> Interpretation(st.f_p_value, alpha)
                        @@ (IF st.dw_statistic # <<>>
                            THEN "durbin_watson" :> st.dw_statistic[1] ELSE <<>>),
                        ws,
                        HypothesisSteps
                        \o <<"print warnings", "linregress", "statistics",
                             "print regression", "print summary", "print results">>,
                        st.zerodiv,
                        get_hypothesis_input(typed), printName)

-----------------------------------------------------------------------------
(* data_manager.py *)

\* the names typed for a dataset
Names == {<<"a">>, <<"b">>}

\* the texts typed as the data of a dataset: "1,0", " 0 , 1,", "1 0", "x,1",
\* "" and ","
DataTexts ==
    {<<"1", ",", "0">>, <<" ", "0", " ", ",", " ", "1", ",">>, <<"1", " ", "0">>,
     <<"x", ",", "1">>, <<>>, <<",">>}

\* parse_comma_separated(data_str): the list of floats, or the ValueError raised
parse_comma_separated(data_str) ==
    LET cleaned == Unspaced(data_str)
        parts == SelectSeq(Split(cleaned, ","), LAMBDA part : part # <<>>)
    IN  IF parts = <<>> THEN [raised |-> "No valid numbers found", data |-> <<>>]
        ELSE IF \E i \in DOMAIN parts : PyFloat(parts[i]) = <<>>
        THEN [raised |-> "Invalid number format: could not convert string to float",
              data |-> <<>>]
        ELSE [raised |-> "none", data |-> [i \in DOMAIN parts |-> PyFloat(parts[i])[1]]]

\* validate_numeric_data(data), for a list of floats
validate_numeric_data(data) == data # <<>>

\* a store that keeps every assignment as an entry of its own
PutAtEnd(store, name, data) == Append(store, [name |-> name, data |-> data])

\* self.datasets[name] = data: the data of a stored name are replaced where
\* they are, a new name is added after the others
Put(store, name, data) ==
    IF \E i \in DOMAIN store : store[i].name = name
    THEN [i \in DOMAIN store |->
            IF store[i].name = name THEN [name |-> name, data |-> data] ELSE store[i]]
    ELSE Append(store, [name |-> name, data |-> data])

\* DataManager.add_dataset(name, data_str) on the datasets `store`: what it
\* returns, the datasets it leaves and what it prints
add_dataset(store, name, data_str) ==
    LET parsed == parse_comma_separated(data_str)
    IN  IF parsed.raised # "none"
        THEN [returns |-> FALSE, datasets |-> store,
              printed |-> <<"print Error adding dataset">>]
        ELSE IF validate_numeric_data(parsed.data)
        THEN [returns |-> TRUE, datasets |-> Put(store, name, parsed.data),
              printed |-> <<>>]
        ELSE [returns |-> FALSE, datasets |-> store, printed |-> <<>>]

\* DataManager.get_dataset(name): <<>> for None, else <<the data>>
get_dataset(store, name) ==
    IF \E i \in DOMAIN store : store[i].name = name
    THEN <<store[CHOOSE i \in DOMAIN store : store[i].name = name].data>>
    ELSE <<>>

\* DataManager.list_datasets()
list_datasets(store) == [i \in DOMAIN store |-> store[i].name]

\* DataManager.remove_dataset(name) on the datasets `store`
remove_dataset(store, name) ==
    IF \E i \in DOMAIN store : store[i].name = name
    THEN [returns |-> TRUE, datasets |-> SelectSeq(store, LAMBDA e : e.name # name)]
    ELSE [returns |-> FALSE, datasets |-> store]

\* the end of a call of a DataManager method or of a menu: what it returned,
\* the steps it executed and the datasets it leaves
Answers(c, res, tr, store) ==
    /\ pc' = "returned"
    /\ call' = c
    /\ result' = res
    /\ raised' = "none"
    /\ warnings' = <<>>
    /\ trace' = tr
    /\ zerodiv' = {}
    /\ hypotheses' = NoHypotheses
    /\ datasets' = store
    /\ UNCHANGED <<printName, repeats>>

\* a call of add_dataset; the call keeps the datasets it found
AddDataset ==
    /\ pc = "idle"
    /\ repeats = <<>>
    /\ \E name \in Names, data_str \in DataTexts :
       \E done \in {add_dataset(datasets, name, data_str)} :
          Answers([fn |-> "add_dataset", name |-> name, data_str |-> data_str,
                   stored |-> datasets],
                  "returns" :> done.returns, done.printed, done.datasets)

\* a call of remove_dataset
RemoveDataset ==
    /\ pc = "idle"
    /\ repeats = <<>>
    /\ \E name \in Names :
       \E done \in {remove_dataset(datasets, name)} :
          Answers([fn |-> "remove_dataset", name |-> name, stored |-> datasets],
                  "returns" :> done.returns, <<>>, done.datasets)

\* str.lower(), for the letters typed at a yes/no prompt
Lowered == "Y" :> "y" @@ "E" :> "e" @@ "S" :> "s" @@ "N" :> "n"

Lower(s) == [i \in DOMAIN s |-> IF s[i] \in DOMAIN Lowered THEN Lowered[s[i]] ELSE s[i]]

\* the texts typed where a dataset is chosen by its number: "0", "1", " 2", "x"
\* and "9"
NumberTexts == {<<"0">>, <<"1">>, <<" ", "2">>, <<"x">>, <<"9">>}

\* the texts typed where data are entered directly: "1,0", "1 0", "x,1" and ""
DirectTexts == {<<"1", ",", "0">>, <<"1", " ", "0">>, <<"x", ",", "1">>, <<>>}

\* the texts typed at a yes/no prompt: "y", "Yes ", "n" and ""
YesNoTexts == {<<"y">>, <<"Y", "e", "s", " ">>, <<"n">>, <<>>}

\* the texts typed where a name is asked: "a", " b", "" and " "
NameTexts == {<<"a">>, <<" ", "b">>, <<>>, <<" ">>}

\* the answers to one prompt that asks again until it is satisfied: at most
\* MaxBadInputs answers and a last one
Scripts(S) == SeqsUpTo(S, MaxBadInputs + 1)

\* the result of a loop of prompts left unfinished by the answers given
Unfinished == [ended |-> FALSE]

\* input_single_dataset, the loop that names the data entered as data_str, on
\* the datasets `store`: the names typed from the k-th on
RECURSIVE name_dataset(_, _, _, _)
name_dataset(store, data_str, names, k) ==
    IF k > Len(names) THEN Unfinished
    ELSE LET dataset_name == Strip(names[k])
             done == add_dataset(store, dataset_name, data_str)
             again == name_dataset(done.datasets, data_str, names, k + 1)
         IN  IF dataset_name = <<>>
             THEN LET rest == name_dataset(store, data_str, names, k + 1)
                  IN  IF rest.ended
                      THEN [rest EXCEPT !.steps = <<"input name", "print enter a valid name">>
                                                   \o @]
                      ELSE Unfinished
             ELSE IF done.returns
             THEN [ended |-> k = Len(names), dataset_name |-> dataset_name,
                   datasets |-> done.datasets,
                   steps |-> <<"input name">> \o done.printed
                             \o <<"print saved successfully">>]
             ELSE IF again.ended
             THEN [again EXCEPT !.steps = <<"input name">> \o done.printed
                                           \o <<"print already exists">> \o @]
             ELSE Unfinished

\* input_single_dataset, the loop that asks for the data: the texts typed from
\* the k-th on
RECURSIVE enter_data(_, _)
enter_data(typed, k) ==
    IF k > Len(typed) THEN Unfinished
    ELSE LET data_str == Strip(typed[k])
             parsed == parse_comma_separated(data_str)
             rest == enter_data(typed, k + 1)
             Again(printed) ==
                 IF rest.ended
                 THEN [rest EXCEPT !.steps = <<"input data", printed>> \o @]
                 ELSE Unfinished
         IN  IF data_str = <<>> THEN Again("print enter some data")
             ELSE IF parsed.raised # "none" THEN Again("print Error parsing data")
             ELSE IF ~validate_numeric_data(parsed.data)
             THEN Again("print Invalid data format")
             ELSE [ended |-> k = Len(typed), data_str |-> data_str, data |-> parsed.data,
                   steps |-> <<"input data">>]

\* the name under which select_dataset returns data entered directly
DirectInput == <<"direct_input">>

\* the sample that was not stored under a name
NotNamed == <<>>

\* input_single_dataset(prompt, allow_naming) on the datasets `store`: for all
\* that the user may type, the data returned, the name they were stored under,
\* the datasets left and the steps executed
input_single_dataset(store, allow_naming) ==
    UNION {LET entered == enter_data(typed, 1)
               Given(dataset_name, after, steps) ==
                   [name |-> DirectInput, data |-> entered.data,
                    dataset_name |-> dataset_name, datasets |-> after,
                    steps |-> entered.steps \o steps]
           IN  IF ~entered.ended THEN {}
               ELSE IF ~allow_naming THEN {Given(NotNamed, store, <<>>)}
               ELSE UNION {IF Lower(Strip(name_choice)) \in {<<"y">>, <<"y", "e", "s">>}
                           THEN {LET named == name_dataset(store, entered.data_str,
                                                            names, 1)
                                 IN  Given(named.dataset_name, named.datasets,
                                           <<"input name choice">> \o named.steps) :
                                   names \in {ns \in Scripts(NameTexts) :
                                                name_dataset(store, entered.data_str,
                                                             ns, 1).ended}}
                           ELSE {Given(NotNamed, store, <<"input name choice">>)} :
                             name_choice \in YesNoTexts} :
             typed \in Scripts(DirectTexts)}

\* select_dataset, the loop that asks for the number of a dataset: the texts
\* typed from the k-th on; a chosen number of 0 stands for data entered directly
RECURSIVE choose_dataset(_, _, _)
choose_dataset(store, choices, k) ==
    IF k > Len(choices) THEN Unfinished
    ELSE LET choice_num == PyFloat(Strip(choices[k]))
             rest == choose_dataset(store, choices, k + 1)
             Again(printed) ==
                 IF rest.ended
                 THEN [rest EXCEPT !.steps = <<"input choice number", printed>> \o @]
                 ELSE Unfinished
         IN  IF choice_num = <<>> THEN Again("print enter a valid number")
             ELSE IF choice_num[1] = 0 \/ choice_num[1] \in DOMAIN store
             THEN [ended |-> k = Len(choices), choice_num |-> choice_num[1],
                   steps |-> <<"input choice number">>]
             ELSE Again("print enter a number between")

\* select_dataset(prompt) on the datasets `store`: for all that the user may
\* type, the name and the data returned, the datasets left and the steps
select_dataset(store) ==
    IF store = <<>>
    THEN {[entered EXCEPT !.steps = <<"print No datasets available">> \o @] :
            entered \in input_single_dataset(store, TRUE)}
    ELSE UNION {LET chosen == choose_dataset(store, choices, 1)
                IN  IF ~chosen.ended THEN {}
                    ELSE IF chosen.choice_num = 0
                    THEN {[entered EXCEPT !.steps = chosen.steps \o @] :
                            entered \in input_single_dataset(store, TRUE)}
                    ELSE {[name |-> store[chosen.choice_num].name,
                           data |-> store[chosen.choice_num].data,
                           dataset_name |-> NotNamed, datasets |-> store,
                           steps |-> chosen.steps]} :
                  choices \in Scripts(NumberTexts)}

-----------------------------------------------------------------------------
(* menu_system.py *)

\* the fields typed into a contingency table: "10", "0", "-1", " 5 ", "x", ""
CornerFields ==
    {<<"1", "0">>, <<"0">>, <<"-", "1">>, <<" ", "5", " ">>, <<"x">>, <<>>}

LastFields == {<<"1", "0">>, <<"0">>}

\* the text of `rows` rows of `cols` fields, commas between the fields and
\* semicolons between the rows: `corner` as its first field, `last` at the end
\* of each row, "10" elsewhere; with `short` the last row lacks its last field
TableText(rows, cols, corner, last, short) ==
    LET width(i) == IF short /\ i = rows /\ rows > 1 /\ cols > 1 THEN cols - 1 ELSE cols
        row(i) == [j \in 1..width(i) |-> IF i = 1 /\ j = 1 THEN corner
                                         ELSE IF j = cols THEN last
                                         ELSE <<"1", "0">>]
    IN  JoinWith([i \in 1..rows |-> JoinWith(row(i), ",")], ";")

\* the texts typed at the prompt of input_contingency_table
TableTexts ==
    {TableText(r, c, corner, last, short) :
        r \in 1..MaxRows, c \in 1..MaxCols, corner \in CornerFields,
        last \in LastFields, short \in BOOLEAN}

\* the texts input_contingency_table accepts
AcceptedTexts ==
    {table_str \in TableTexts : validate_contingency_table(Strip(table_str)).is_valid}

\* texts it refuses, one for each of its messages: "10,10", "-1,10;10,10",
\* "x,10;10,10" and "10,10;10"
RefusedTexts ==
    {table_str \in {TableText(1, 2, <<"1", "0">>, <<"1", "0">>, FALSE),
                    TableText(2, 2, <<"-", "1">>, <<"1", "0">>, FALSE),
                    TableText(2, 2, <<"x">>, <<"1", "0">>, FALSE),
                    TableText(2, 2, <<"1", "0">>, <<"1", "0">>, TRUE)} :
        ~validate_contingency_table(Strip(table_str)).is_valid}

\* validate_contingency_table applied to a text
ValidateContingencyTable ==
    /\ pc = "idle"
    /\ repeats = <<>>
    /\ \E table_str \in TableTexts :
       Returns([fn |-> "validate_contingency_table", table_str |-> table_str],
               validate_contingency_table(table_str),
               <<>>, <<>>, {}, NoHypotheses, printName)

\* the steps of input_contingency_table for the texts typed, each one but the
\* last refused with its message
InputTableSteps(typed) ==
    <<"print format">>
    \o [i \in 1..(2 * Len(typed) - 1) |->
          IF i % 2 = 1 THEN "input table"
          ELSE validate_contingency_table(Strip(typed[i \div 2])).error_msg]

\* _chi_square_assoc_menu: input_contingency_table asks for the table until
\* validate_contingency_table accepts the text, then chi_square_association
\* runs on the table it returned, with the default alpha
ChiSquareAssocMenu ==
    /\ pc = "idle"
    /\ repeats = <<>>
    /\ \E refused \in {<<>>} \cup SeqsUpTo(RefusedTexts, MaxBadInputs),
          accepted \in AcceptedTexts :
       \E typed \in {Append(refused, accepted)} :
          \E table \in {validate_contingency_table(Strip(typed[Len(typed)])).table[1]} :
             chi_square_association([fn |-> "_chi_square_assoc_menu",
                                     table_str |-> typed[Len(typed)],
                                     contingency_table |-> [nested |-> TRUE, rows |-> table],
                                     alpha |-> Fin(1, 20)],
                                    InputTableSteps(typed),
                                    [nested |-> TRUE, rows |-> table], Fin(1, 20))

\* the texts typed at "Enter your choice": "0", " 0 ", "d", "2", "7", "14",
\* "x" and ""
MainChoices ==
    {<<"0">>, <<" ", "0", " ">>, <<"d">>, <<"2">>, <<"7">>, <<"1", "4">>, <<"x">>, <<>>}

\* the keys of test_menu: '1' to '13'
TestKeys ==
    {<<"1">>, <<"2">>, <<"3">>, <<"4">>, <<"5">>, <<"6">>, <<"7">>, <<"8">>, <<"9">>,
     <<"1", "0">>, <<"1", "1">>, <<"1", "2">>, <<"1", "3">>}

\* the texts typed at "Enter choice" in the data management menu: "0", "1",
\* "2", " 3", "4" and ""
DataChoices == {<<"0">>, <<"1">>, <<"2">>, <<" ", "3">>, <<"4">>, <<>>}

\* input(...).strip() gives `key` for one of the texts typed
Chosen(S, key) == \E typed \in S : Strip(typed) = key

\* a menu is left at the prompt `at`, after the steps `tr` of the handler `c`,
\* with the datasets `store`
Shows(at, c, tr, store) ==
    /\ pc' = at
    /\ call' = c
    /\ result' = NoResult
    /\ raised' = "none"
    /\ warnings' = <<>>
    /\ trace' = tr
    /\ zerodiv' = {}
    /\ hypotheses' = NoHypotheses
    /\ datasets' = store
    /\ UNCHANGED <<printName, repeats>>

\* run: the choice '0' breaks the loop
Exit ==
    /\ pc = "idle"
    /\ repeats = <<>>
    /\ \E typed \in MainChoices :
          /\ Strip(typed) = <<"0">>
          /\ Shows("exited", [fn |-> "run", choice |-> typed], <<>>, datasets)

\* run: a choice that is neither '0' nor 'd' nor a key of test_menu is
\* reported, and "Press Enter to continue..." is shown
InvalidChoice ==
    /\ pc = "idle"
    /\ repeats = <<>>
    /\ \E typed \in MainChoices :
          /\ Strip(typed) \notin {<<"0">>, <<"d">>} \cup TestKeys
          /\ Shows("invalid", [fn |-> "run", choice |-> typed],
                   <<"print Invalid choice">>, datasets)

\* run: Enter is pressed after an invalid choice, the main menu is shown again
PressEnter ==
    /\ pc = "invalid"
    /\ Shows("idle", [fn |-> "none"], <<>>, datasets)

\* run: the choice 'd' opens the data management menu
DataManagementMenu ==
    /\ pc = "idle"
    /\ repeats = <<>>
    /\ Chosen(MainChoices, <<"d">>)
    /\ Shows("data", [fn |-> "_data_management_menu"], <<"print menu">>, datasets)

\* _data_management_menu: the choice '0' goes back to the main menu
DataMenuBack ==
    /\ pc = "data"
    /\ Chosen(DataChoices, <<"0">>)
    /\ Shows("idle", [fn |-> "none"], <<>>, datasets)

\* _data_management_menu: a choice that is none of '0', '1', '2' and '3'
DataMenuInvalidChoice ==
    /\ pc = "data"
    /\ \E typed \in DataChoices :
          /\ Strip(typed) \notin {<<"0">>, <<"1">>, <<"2">>, <<"3">>}
          /\ Shows("data", [fn |-> "_data_management_menu", choice |-> typed],
                   <<"print Invalid choice", "input Press Enter">>, datasets)

\* _data_management_menu, choice '1': _add_dataset
MenuAddDataset ==
    /\ pc = "data"
    /\ Chosen(DataChoices, <<"1">>)
    /\ \E typed_name \in NameTexts, answer \in YesNoTexts, typed \in DirectTexts :
       LET name == Strip(typed_name)
           stored == list_datasets(datasets)
           exists == \E i \in DOMAIN stored : stored[i] = name
           overwrite == Lower(Strip(answer))
           data_str == Strip(typed)
           done == add_dataset(datasets, name, data_str)
           c == [fn |-> "_add_dataset", name |-> name, stored |-> datasets]
       IN  IF name = <<>>
           THEN Shows("data", c,
                      <<"input name", "print name cannot be empty",
                        "input Press Enter">>, datasets)
           ELSE IF exists /\ overwrite # <<"y">>
           THEN Shows("data", c,
                      <<"input name", "input Overwrite?", "print Operation cancelled",
                        "input Press Enter">>, datasets)
           ELSE Shows("data", c,
                      <<"input name">>
                      \o (IF exists THEN <<"input Overwrite?">> ELSE <<>>)
                      \o <<"input data">> \o done.printed
                      \o (IF done.returns
                          THEN <<"print added successfully", "print Summary">>
                          ELSE <<"print Failed to add dataset">>)
                      \o <<"input Press Enter">>, done.datasets)

\* _data_management_menu, choice '2': _view_datasets
ViewDatasets ==
    /\ pc = "data"
    /\ Chosen(DataChoices, <<"2">>)
    /\ Shows("data", [fn |-> "_view_datasets", stored |-> datasets],
             <<"display_datasets", "input Press Enter">>, datasets)

\* _data_management_menu, choice '3': _remove_dataset
MenuRemoveDataset ==
    /\ pc = "data"
    /\ Chosen(DataChoices, <<"3">>)
    /\ LET stored == list_datasets(datasets)
           c == [fn |-> "_remove_dataset", stored |-> datasets]
       IN  IF stored = <<>>
           THEN Shows("data", c, <<"print No datasets to remove", "input Press Enter">>,
                      datasets)
           ELSE \E typed \in NumberTexts, answer \in YesNoTexts :
                LET choice == PyFloat(typed)
                IN  IF choice = <<>>
                    THEN Shows("data", c,
                               <<"input number", "print enter a valid number",
                                 "input Press Enter">>, datasets)
                    ELSE IF choice[1] \notin DOMAIN stored
                    THEN Shows("data", c,
                               <<"input number", "print Invalid dataset number",
                                 "input Press Enter">>, datasets)
                    ELSE IF Lower(Strip(answer)) = <<"y">>
                    THEN Shows("data", c,
                               <<"input number", "input Remove?", "print removed",
                                 "input Press Enter">>,
                               remove_dataset(datasets, stored[choice[1]]).datasets)
                    ELSE Shows("data", c,
                               <<"input number", "input Remove?",
                                 "print Operation cancelled", "input Press Enter">>,
                               datasets)

\* the end of a test menu that may have stored the sample it asked for
ReturnsStoring(c, res, ws, tr, zd, hyp, name, store) ==
    /\ pc' = "returned"
    /\ call' = c
    /\ result' = res
    /\ raised' = "none"
    /\ warnings' = ws
    /\ trace' = tr
    /\ zerodiv' = zd
    /\ hypotheses' = hyp
    /\ printName' = name
    /\ datasets' = store
    /\ UNCHANGED repeats

\* _run_test('2'): _students_t_menu, select_dataset and then students_t_test
\* on the data selected, with the default population_mean and alpha
StudentsTMenu ==
    /\ pc = "idle"
    /\ repeats = <<>>
    /\ Chosen(MainChoices, <<"2">>)
    /\ \E selected \in select_dataset(datasets), answer \in NumberAnswers :
       \E data \in {selected.data}, population_mean \in {ParseAnswer(answer)} :
       \E st \in {students_statistics(data, population_mean)},
          ws \in {t_test_warnings(data)} :
       \E scipy \in Scipy :
       \E p_value \in {PValue(scipy, st.t_statistic)} :
       \E bad \in 0..MaxBadInputs, typed \in HypAnswers :
           ReturnsStoring([fn |-> "_students_t_menu", stored |-> datasets,
                           name |-> selected.name,
                           dataset_name |-> selected.dataset_name, data |-> data],
                          students_t_results(st, population_mean, p_value, Fin(1, 20)),
                          ws,
                          <<"print header">> \o selected.steps \o <<"set __name__">>
                          \o PromptSteps("input mean", bad)
                          \o HypothesisSteps
                          \o <<"print warnings", "ttest_1samp", "statistics",
                               "print summary", "print results">>,
                          st.zerodiv,
                          get_hypothesis_input(typed),
                          "One-Sample Student's t-test",
                          selected.datasets)

\* a _run_test without its except clause: the exception of a test ends run
Propagates ==
    /\ pc \in {"returned", "raised"}
    /\ pc' = IF pc = "raised" THEN "exited" ELSE "idle"
    /\ call' = [fn |-> "none"]
    /\ result' = NoResult
    /\ raised' = "none"
    /\ warnings' = <<>>
    /\ trace' = <<>>
    /\ zerodiv' = {}
    /\ hypotheses' = NoHypotheses
    /\ repeats' = <<>>
    /\ UNCHANGED <<printName, datasets>>

\* _run_test: the record is dropped, "Press Enter to continue", back to the menu
Continue ==
    /\ pc \in {"returned", "raised"}
    /\ pc' = "idle"
    /\ call' = [fn |-> "none"]
    /\ result' = NoResult
    /\ raised' = "none"
    /\ warnings' = <<>>
    /\ trace' = <<>>
    /\ zerodiv' = {}
    /\ hypotheses' = NoHypotheses
    /\ repeats' = <<>>
    /\ UNCHANGED <<printName, datasets>>

-----------------------------------------------------------------------------

Init ==
    /\ pc = "idle"
    /\ call = [fn |-> "none"]
    /\ result = NoResult
    /\ raised = "none"
    /\ warnings = <<>>
    /\ trace = <<>>
    /\ zerodiv = {}
    /\ hypotheses = NoHypotheses
    /\ printName = "print_test_results"
    /\ repeats = <<>>
    /\ datasets = <<>>

Next ==
    \/ StudentsTTest
    \/ PairedTTest
    \/ IndependentTTest
    \/ FTest
    \/ OneWayAnova
    \/ WilcoxonSignedRankOneSample
    \/ WilcoxonSignedRankPaired
    \/ OneSampleWilcoxonTest
    \/ KruskalWallisTest
    \/ MannWhitneyTest
    \/ ChiSquareGoodnessOfFit
    \/ ChiSquareAssociation
    \/ SpearmansRankCorrelation
    \/ CoefficientOfDetermination
    \/ LinearRegressionTests
    \/ ValidateContingencyTable
    \/ ChiSquareAssocMenu
    \/ Continue

Spec == Init /\ [][Next]_vars

\* the test functions
TestFunctions ==
    {"students_t_test", "paired_t_test", "independent_t_test", "f_test",
     "one_way_anova", "wilcoxon_signed_rank_test", "one_sample_wilcoxon_test",
     "kruskal_wallis_test", "mann_whitney_test", "chi_square_goodness_of_fit",
     "chi_square_association", "spearmans_rank_correlation",
     "coefficient_of_determination", "linear_regression_tests"}

\* MenuSystem.run with the same choice made again: the test that has just ended,
\* having asked for no hypotheses or been given blank ones, is run once more on
\* the same data, with the other texts typed at its hypothesis prompts
RunAgain ==
    /\ pc \in {"returned", "raised"}
    /\ repeats = <<>>
    /\ call.fn \in TestFunctions
    /\ hypotheses \in {NoHypotheses, get_hypothesis_input(<<"", "">>)}
    /\ repeats' = [pc |-> pc, call |-> call, result |-> result, raised |-> raised,
                   warnings |-> warnings, trace |-> trace, zerodiv |-> zerodiv,
                   hypotheses |-> hypotheses]
    /\ pc' = "idle"
    /\ call' = [fn |-> "none"]
    /\ result' = NoResult
    /\ raised' = "none"
    /\ warnings' = <<>>
    /\ trace' = <<>>
    /\ zerodiv' = {}
    /\ hypotheses' = NoHypotheses
    /\ UNCHANGED <<printName, datasets>>

NextTwice == Next \/ RunAgain

\* the program when a test may be run a second time
SpecTwice == Init /\ [][NextTwice]_vars

\* the methods of DataManager called one after the other
NextData ==
    \/ AddDataset
    \/ RemoveDataset
    \/ Continue

SpecData == Init /\ [][NextData]_vars

\* MenuSystem.run: the main menu, the data management menu and the test menus
NextMenu ==
    \/ Exit
    \/ InvalidChoice
    \/ PressEnter
    \/ DataManagementMenu
    \/ DataMenuBack
    \/ DataMenuInvalidChoice
    \/ MenuAddDataset
    \/ ViewDatasets
    \/ MenuRemoveDataset
    \/ StudentsTMenu
    \/ ChiSquareAssocMenu
    \/ Continue

SpecMenu == Init /\ [][NextMenu]_vars

-----------------------------------------------------------------------------
(* Properties *)

\* the steps of the call, as a set
Steps == {trace[i] : i \in DOMAIN trace}

\* the call `fn` has returned
Returned(fn) == pc = "returned" /\ call.fn = fn

\* the returned record carries only test_name and error
ErrorRecord == DOMAIN result = {"test_name", "error"}

\* the text of the warning is among the warnings of the call
Warned(text) == \E i \in DOMAIN warnings : warnings[i][3] = text

\* (se1^2 + se2^2)^2 / (se1^4 / (n1 - 1) + se2^4 / (n2 - 1)), se_i^2 = var_i / n_i
WelchSatterthwaite(data1, data2) ==
    LET a == FDiv(Var(data1, 1), Num(Len(data1)))
        b == FDiv(Var(data2, 1), Num(Len(data2)))
    IN  FDiv(FMul(FAdd(a, b), FAdd(a, b)),
             FAdd(FDiv(FMul(a, a), Num(Len(data1) - 1)),
                  FDiv(FMul(b, b), Num(Len(data2) - 1))))

\* C1: independent_t_test chooses the variance model by Levene's test alone,
\* whatever equal_var the caller passes: when Levene's p-value is above 0.05 the
\* record has equal_variances_assumed = True, degrees_of_freedom = n1 + n2 - 2
\* and a pooled_std field; otherwise it is Welch's test.
C1_LeveneAloneChoosesTheModel ==
    Returned("independent_t_test") =>
        IF LevenePAbove05(call.data1, call.data2)
        THEN /\ result["equal_variances_assumed"] = TRUE
             /\ result["degrees_of_freedom"] = Num(Len(call.data1) + Len(call.data2) - 2)
             /\ "pooled_std" \in DOMAIN result
        ELSE result["equal_variances_assumed"] = FALSE

PairedCallWithUnequalLengths ==
    \/ call.fn = "paired_t_test" /\ Len(call.data1) # Len(call.data2)
    \/ /\ call.fn = "wilcoxon_signed_rank_test"
       /\ call.data2 # <<>>
       /\ Len(call.data1) # Len(call.data2[1])

\* C3: paired_t_test(A, B) and the paired wilcoxon_signed_rank_test(A, B) with
\* len(A) # len(B) raise ValueError before any hypothesis prompt, difference
\* computation or statistic; no record is returned and nothing is computed from
\* inputs truncated to the shorter length.
C3_UnequalLengthsRaiseFirst ==
    PairedCallWithUnequalLengths =>
        /\ pc = "raised"
        /\ raised = (IF call.fn = "paired_t_test"
                     THEN "Paired t-test requires equal sample sizes"
                     ELSE "Paired test requires equal sample sizes")
        /\ result = NoResult
        /\ hypotheses = NoHypotheses
        /\ Steps \cap {"input H0", "input H1", "differences", "ttest_rel", "wilcoxon",
                       "statistics", "print results"} = {}

\* paired_t_test has raised on a first sample shorter than the second
C3_Witness ==
    /\ pc = "raised"
    /\ call.fn = "paired_t_test"
    /\ Len(call.data1) < Len(call.data2)
    /\ raised = "Paired t-test requires equal sample sizes"

\* C4: paired_t_test(A, B) with equal lengths returns the one-sample t statistic
\* of the differences B - A against 0, so the sign of the statistic agrees with
\* the sign of mean_difference = mean(B - A) and of effect_size, and
\* degrees_of_freedom = n - 1.
C4_PairedStatisticIsOfBMinusA ==
    Returned("paired_t_test") =>
        /\ result["statistic"] = ttest_1samp(Differences(call.data1, call.data2), 0)
        /\ result["mean_difference"] = Mean(Differences(call.data1, call.data2))
        /\ (IsFin(result["statistic"]) /\ IsFin(result["effect_size"]) =>
               /\ SignOf(result["statistic"]) = SignOf(result["mean_difference"])
               /\ SignOf(result["statistic"]) = SignOf(result["effect_size"]))
        /\ result["degrees_of_freedom"] = Num(Len(call.data1) - 1)

\* the call is a Wilcoxon signed-rank test that got past its length check
WilcoxonCall ==
    /\ call.fn \in {"one_sample_wilcoxon_test", "wilcoxon_signed_rank_test"}
    /\ ~PairedCallWithUnequalLengths

\* the differences of the Wilcoxon call, from its arguments and the median typed
CallDifferences ==
    IF call.fn = "one_sample_wilcoxon_test"
    THEN [i \in 1..Len(call.data) |-> call.data[i] - call.hypothesized_median]
    ELSE IF call.data2 = <<>>
    THEN [i \in 1..Len(call.data1) |-> call.data1[i] - call.hyp_median]
    ELSE [i \in 1..Len(call.data1) |-> call.data2[1][i] - call.data1[i]]

IsNonZero(x) == x # 0

\* C5: in one_sample_wilcoxon_test and both forms of wilcoxon_signed_rank_test,
\* when every difference is exactly zero the function returns normally a record
\* whose keys are exactly test_name and error, and raises no exception.
C5_AllZeroDifferencesGiveErrorRecord ==
    (WilcoxonCall /\ \A i \in DOMAIN CallDifferences : CallDifferences[i] = 0) =>
        /\ pc = "returned"
        /\ raised = "none"
        /\ ErrorRecord

\* the one-sample wilcoxon_signed_rank_test has returned on a sample of two or
\* more values, all equal to the non-zero median typed
C5_Witness ==
    /\ Returned("wilcoxon_signed_rank_test")
    /\ call.data2 = <<>>
    /\ call.hyp_median # 0
    /\ Len(call.data1) >= 2
    /\ \A i \in DOMAIN call.data1 : call.data1[i] = call.hyp_median
    /\ ErrorRecord

\* C6: the Wilcoxon tests rank exactly the non-zero differences, in their
\* original order; the count they report (n_pairs / n_observations) is the number
\* of non-zero differences; and the warning that k zero differences were removed
\* is generated if and only if k > 0, k being the number of zero differences.
C6_RanksTheNonZeroDifferences ==
    WilcoxonCall =>
        LET nz == SelectSeq(CallDifferences, IsNonZero)
            k == Len(CallDifferences) - Len(nz)
            n_key == IF call.fn = "one_sample_wilcoxon_test" THEN "n_observations"
                     ELSE "n_pairs"
        IN  /\ NonZero(CallDifferences) = nz
            /\ (nz # <<>> => /\ result["statistic"] = wilcoxon(nz)
                             /\ result[n_key] = Len(nz))
            /\ (k > 0 <=> Warned("Removed zero differences."))
            /\ \A i \in DOMAIN warnings :
                   warnings[i][3] = "Removed zero differences." => warnings[i][4] = k

\* the paired wilcoxon_signed_rank_test has returned a statistic after removing
\* a zero difference that stood between two non-zero ones
C6_Witness ==
    /\ Returned("wilcoxon_signed_rank_test")
    /\ call.data2 # <<>>
    /\ Len(CallDifferences) = 3
    /\ CallDifferences[1] # 0
    /\ CallDifferences[2] = 0
    /\ CallDifferences[3] # 0
    /\ result["n_pairs"] = 2
    /\ Warned("Removed zero differences.")

\* the ValueError of the group-count guard of the call
GroupCountError ==
    IF call.fn = "one_way_anova" THEN "ANOVA requires at least 2 groups"
    ELSE "Kruskal-Wallis test requires at least 2 groups"

\* C7: one_way_anova and kruskal_wallis_test with fewer than 2 groups (0 or 1)
\* raise ValueError before any hypothesis prompt or computation; with 2 or more
\* groups they never raise this error.
C7_FewerThanTwoGroupsRaise ==
    call.fn \in {"one_way_anova", "kruskal_wallis_test"} =>
        IF Len(call.groups) < 2
        THEN /\ pc = "raised"
             /\ raised = GroupCountError
             /\ result = NoResult
             /\ hypotheses = NoHypotheses
             /\ Steps \cap {"input H0", "input H1", "print warnings", "f_oneway",
                            "kruskal", "statistics", "print results"} = {}
        ELSE /\ pc = "returned"
             /\ raised = "none"

\* kruskal_wallis_test has raised on a single group
C7_Witness ==
    /\ pc = "raised"
    /\ call.fn = "kruskal_wallis_test"
    /\ Len(call.groups) = 1
    /\ raised = "Kruskal-Wallis test requires at least 2 groups"

\* C8: students_t_test on fewer than 2 observations signals an insufficient-data
\* failure, by an exception or by a record carrying error; it never returns a
\* record with statistic, effect_size or confidence_interval fields.
C8_OneObservationIsRefused ==
    (call.fn = "students_t_test" /\ Len(call.data) < 2) =>
        /\ pc = "raised" \/ (pc = "returned" /\ "error" \in DOMAIN result)
        /\ DOMAIN result \cap {"statistic", "effect_size", "confidence_interval"} = {}

\* C9: students_t_test on n >= 2 identical values c returns either a defined
\* statistic and effect_size (statistic 0 when the hypothesized mean is c) or a
\* record carrying only test_name and error; it never divides by the zero
\* standard deviation and never leaves NaN or Infinity in the statistic, the
\* effect_size or a confidence bound.
C9_ZeroVarianceIsGuarded ==
    (Returned("students_t_test") /\ Len(call.data) >= 2 /\ IsZero(Var(call.data, 1))) =>
        /\ zerodiv = {}
        /\ \/ ErrorRecord
           \/ /\ IsFin(result["statistic"])
              /\ IsFin(result["effect_size"])
              /\ BoundClass(result["confidence_interval"]) = "fin"
              /\ (result["hypothesized_mean"] = Num(call.data[1]) =>
                      result["statistic"] = Num(0))

\* C10: f_test on samples of which at least one has sample variance exactly 0
\* (both constant included) evaluates no division with a zero denominator when
\* forming the F statistic, the variance_ratio field or the confidence interval.
C10_FTestNeverDividesByZeroVariance ==
    (/\ Returned("f_test")
     /\ \/ Len(call.data1) >= 2 /\ IsZero(Var(call.data1, 1))
        \/ Len(call.data2) >= 2 /\ IsZero(Var(call.data2, 1))) =>
        zerodiv = {}

\* the variances of the two samples of a returned f_test are both positive
FTestOfPositiveVariances ==
    /\ Returned("f_test")
    /\ FGt(Var(call.data1, 1), Num(0))
    /\ FGt(Var(call.data2, 1), Num(0))

\* C11: when both sample variances are positive, the f_statistic of f_test is
\* the larger variance over the smaller and so at least 1, df1 and df2 are the
\* degrees of freedom of the numerator and of the denominator sample, the
\* first sample is the numerator when the variances are equal, and
\* variance_ratio equals f_statistic
C11_LargerVarianceOverSmaller ==
    FTestOfPositiveVariances =>
        LET v1 == Var(call.data1, 1)
            v2 == Var(call.data2, 1)
            n1 == Len(call.data1)
            n2 == Len(call.data2)
            secondOver == FGt(v2, v1)
        IN  /\ result["f_statistic"]
                 = (IF secondOver THEN FDiv(v2, v1) ELSE FDiv(v1, v2))
            /\ FGe(result["f_statistic"], Num(1))
            /\ result["df1"] = Num(IF secondOver THEN n2 - 1 ELSE n1 - 1)
            /\ result["df2"] = Num(IF secondOver THEN n1 - 1 ELSE n2 - 1)
            /\ result["variance_ratio"] = result["f_statistic"]

\* f_test has returned for a first sample of positive variance smaller than
\* that of the second
C11_Witness ==
    /\ FTestOfPositiveVariances
    /\ FGt(Var(call.data2, 1), Var(call.data1, 1))
    /\ Len(call.data1) # Len(call.data2)
    /\ result["df1"] = Num(Len(call.data2) - 1)


\* C12: every record a test function returns either has exactly the keys
\* test_name and error, or has all of test_name, p_value and interpretation
C12_RecordsHaveOneOfTwoShapes ==
    pc = "returned" =>
        \/ DOMAIN result = {"test_name", "error"}
        \/ {"test_name", "p_value", "interpretation"} \subseteq DOMAIN result

\* C13: in every successful record the interpretation says "Reject" exactly
\* when the p_value of the record is below the alpha of the call, says "Fail to
\* reject" otherwise, and names the alpha the caller passed
C13_InterpretationFollowsPValue ==
    (pc = "returned" /\ ~ErrorRecord) =>
        /\ "p_value" \in DOMAIN result
        /\ result["interpretation"].verdict
             = (IF FLt(result["p_value"], call.alpha) THEN "Reject" ELSE "Fail to reject")
        /\ result["interpretation"].alpha = call.alpha

\* C14: the assumption warnings a run generated are in the record it returns:
\* the record holds a set of warnings equal to the set the run accumulated
C14_WarningsAreInTheRecord ==
    (pc = "returned" /\ warnings # <<>>) =>
        /\ "warnings" \in DOMAIN result
        /\ {result["warnings"][i] : i \in DOMAIN result["warnings"]}
             = {warnings[i] : i \in DOMAIN warnings}

\* the step at which the ended call computes its test statistic
ComputeStep ==
    CASE call.fn = "students_t_test" -> "ttest_1samp"
      [] call.fn = "paired_t_test" -> "ttest_rel"
      [] call.fn = "independent_t_test" -> "ttest_ind"
      [] call.fn = "f_test" -> "statistics"
      [] call.fn = "one_way_anova" -> "f_oneway"
      [] call.fn \in {"wilcoxon_signed_rank_test", "one_sample_wilcoxon_test"} -> "wilcoxon"
      [] call.fn = "mann_whitney_test" -> "mannwhitneyu"
      [] call.fn = "kruskal_wallis_test" -> "kruskal"
      [] call.fn = "chi_square_goodness_of_fit" -> "chisquare"
      [] call.fn = "chi_square_association" -> "chi2_contingency"
      [] call.fn = "spearmans_rank_correlation" -> "spearmanr"
      [] OTHER -> "linregress"

\* the arguments of the ended call fail a precondition of its test
PreconditionFails ==
    \/ PairedCallWithUnequalLengths
    \/ call.fn \in {"one_way_anova", "kruskal_wallis_test"} /\ Len(call.groups) < 2
    \/ /\ call.fn = "chi_square_goodness_of_fit"
       /\ \/ ~validate_categorical_data(call.observed)
          \/ /\ call.expected # <<>>
             /\ \/ Len(call.expected[1]) # Len(call.observed)
                \/ ~validate_categorical_data(call.expected[1])
    \/ /\ call.fn = "chi_square_association"
       /\ LET t == call.contingency_table
          IN  \/ ~t.nested
              \/ \E i \in DOMAIN t.rows : Len(t.rows[i]) # Len(t.rows[1])
              \/ Len(t.rows) < 2
              \/ Len(t.rows[1]) < 2
              \/ \E i \in DOMAIN t.rows : \E j \in DOMAIN t.rows[i] : t.rows[i][j] < 0
    \/ /\ call.fn \in {"spearmans_rank_correlation", "coefficient_of_determination",
                       "linear_regression_tests"}
       /\ \/ Len(call.x_data) # Len(call.y_data)
          \/ Len(call.x_data) < 3
          \/ \A i \in DOMAIN call.x_data : call.x_data[i] = call.x_data[1]
          \/ \A i \in DOMAIN call.y_data : call.y_data[i] = call.y_data[1]

\* C15: warnings are advisory. A call of a test function whose arguments pass
\* the preconditions of its test returns a record, whatever warnings it
\* generated, and reaches the computation of its statistic; the one exception
\* is a Wilcoxon test whose differences are all zero, which returns before
\* computing
C15_WarningsNeverBlock ==
    (pc \in {"returned", "raised"} /\ call.fn \in TestFunctions) =>
        IF PreconditionFails THEN pc = "raised"
        ELSE /\ pc = "returned"
             /\ \/ ComputeStep \in Steps
                \/ /\ WilcoxonCall
                   /\ \A i \in DOMAIN CallDifferences : CallDifferences[i] = 0
                   /\ Warned("All differences are zero. Cannot perform test.")

\* a goodness-of-fit test that generated both of its warnings has computed its
\* statistic and returned a full record
C15_Witness ==
    /\ Returned("chi_square_goodness_of_fit")
    /\ Warned("Some expected frequencies < 5. Results may be unreliable.")
    /\ Warned("Total sample size < 30. Consider exact tests.")
    /\ "chisquare" \in Steps
    /\ "p_value" \in DOMAIN result

\* C16: the test functions keep no state across calls: the attributes of the
\* shared print_test_results, its __name__ among them, are what they were when
\* the program started
C16_NoStateAcrossCalls == printName = "print_test_results"

\* C17: the record of a call is fixed by its arguments, whatever the
\* environment supplies: students_t_test(data, population_mean = m) reports
\* hypothesized_mean = m, m = 0 included, and wilcoxon_signed_rank_test(data),
\* which has no median argument, takes its differences from the median 0 of
\* its documentation and not from a number typed during the call
C17_RecordFixedByArguments ==
    /\ Returned("students_t_test") =>
          result["hypothesized_mean"] = Num(call.population_mean)
    /\ (Returned("wilcoxon_signed_rank_test") /\ call.data2 = <<>>) =>
          /\ call.hyp_median = 0
          /\ "input median" \notin Steps

\* the ended call is one of the three tests behind the correlation gate
CorrelationCall ==
    call.fn \in {"spearmans_rank_correlation", "coefficient_of_determination",
                 "linear_regression_tests"}

\* every value of data equals the first
AllEqual(data) == \A i \in DOMAIN data : data[i] = data[1]

\* the reason of the first rule the x and y of the call fail, in the order
\* length mismatch, fewer than 3 points, constant X, constant Y; "None" if none
FirstFailingRule ==
    CASE Len(call.x_data) # Len(call.y_data) -> "X and Y datasets must have equal length"
      [] Len(call.x_data) = Len(call.y_data) /\ Len(call.x_data) < 3
           -> "Need at least 3 data points for correlation"
      [] Len(call.x_data) = Len(call.y_data) /\ Len(call.x_data) >= 3
         /\ AllEqual(call.x_data)
           -> "X variable is constant (no variation)"
      [] Len(call.x_data) = Len(call.y_data) /\ Len(call.x_data) >= 3
         /\ ~AllEqual(call.x_data) /\ AllEqual(call.y_data)
           -> "Y variable is constant (no variation)"
      [] OTHER -> "None"

\* C19: validate_correlation_data(x, y) is (True, None) exactly when x and y are
\* equally long, have 3 points or more and are both not constant, and otherwise
\* False with the reason of the first failing rule; the three tests behind it
\* raise that reason before any prompt or computation, and so compute only on
\* 3 points or more of two variables that vary
C19_CorrelationGate ==
    CorrelationCall =>
        /\ validate_correlation_data(call.x_data, call.y_data)
             = <<FirstFailingRule = "None", FirstFailingRule>>
        /\ IF FirstFailingRule = "None"
           THEN /\ pc = "returned"
                /\ Len(call.x_data) >= 3
                /\ ~AllEqual(call.x_data)
                /\ ~AllEqual(call.y_data)
           ELSE /\ pc = "raised"
                /\ raised = FirstFailingRule
                /\ result = NoResult
                /\ hypotheses = NoHypotheses
                /\ trace = <<>>

\* linear_regression_tests has raised for two points, both variables constant:
\* the reason is the number of points
C19_Witness ==
    /\ pc = "raised"
    /\ call.fn = "linear_regression_tests"
    /\ Len(call.x_data) = 2
    /\ Len(call.y_data) = 2
    /\ AllEqual(call.x_data)
    /\ AllEqual(call.y_data)
    /\ raised = "Need at least 3 data points for correlation"

\* x is a whole number and not negative
IsFrequency(x) == IsFin(x) /\ x.d = 1 /\ x.n >= 0

\* C20: validate_categorical_data(data) is True exactly when data is not empty
\* and every element is a non-negative whole number, so that
\* chi_square_goodness_of_fit raises its precondition error for an observed list
\* holding a fraction or a negative value instead of truncating it
C20_OnlyWholeFrequenciesPass ==
    call.fn = "chi_square_goodness_of_fit" =>
        /\ validate_categorical_data(call.observed)
             = (/\ call.observed # <<>>
                /\ \A i \in DOMAIN call.observed : IsFrequency(call.observed[i]))
        /\ (\E i \in DOMAIN call.observed : ~IsFrequency(call.observed[i])) =>
              /\ pc = "raised"
              /\ raised = "Observed data must be non-negative integers (frequencies)"

\* a call has ended that repeated the call before it with other hypothesis texts
RepeatEnded ==
    /\ repeats # <<>>
    /\ pc \in {"returned", "raised"}
    /\ call = repeats.call

\* C18: two runs of a test function that differ only in the texts typed at the
\* hypothesis prompts, blank texts replaced by the defaults included, end the
\* same way: the same record, field by field, or the same error, after the same
\* steps, with the same warnings and the same divisions by zero
C18_HypothesisTextsDoNotInterfere ==
    RepeatEnded =>
        /\ pc = repeats.pc
        /\ result = repeats.result
        /\ raised = repeats.raised
        /\ warnings = repeats.warnings
        /\ trace = repeats.trace
        /\ zerodiv = repeats.zerodiv

\* independent_t_test has returned twice on the same samples, the first time
\* with the default hypotheses and now with typed ones, having collected
\* warnings
C18_Witness ==
    /\ RepeatEnded
    /\ Returned("independent_t_test")
    /\ repeats.hypotheses = <<DefaultNull, DefaultAlt>>
    /\ hypotheses = <<"H0 as typed", "H1 as typed">>
    /\ warnings # <<>>
    /\ "p_value" \in DOMAIN result

\* the table of the call is a list of equally long rows, two or more, of two
\* or more cells, none negative
AssociationPrecondition ==
    /\ call.contingency_table.nested
    /\ \A i \in DOMAIN call.contingency_table.rows :
          Len(call.contingency_table.rows[i]) = Len(call.contingency_table.rows[1])
    /\ Len(call.contingency_table.rows) >= 2
    /\ Len(call.contingency_table.rows[1]) >= 2
    /\ \A i \in DOMAIN call.contingency_table.rows :
          \A j \in DOMAIN call.contingency_table.rows[i] :
             call.contingency_table.rows[i][j] >= 0

\* C22: chi_square_association(table) raises before any hypothesis prompt or
\* computation exactly when the table is not 2-dimensional, has fewer than 2
\* rows or fewer than 2 columns, or holds a negative frequency; for every other
\* table it returns a record with degrees_of_freedom = (rows-1)*(cols-1), and
\* with phi_coefficient exactly when the table is 2x2
C22_AssociationGateAndRecord ==
    call.fn = "chi_square_association" =>
        IF AssociationPrecondition
        THEN /\ pc = "returned"
             /\ "degrees_of_freedom" \in DOMAIN result
             /\ result["degrees_of_freedom"]
                  = Num((Len(call.contingency_table.rows) - 1)
                        * (Len(call.contingency_table.rows[1]) - 1))
             /\ "phi_coefficient" \in DOMAIN result
                  <=> (/\ Len(call.contingency_table.rows) = 2
                       /\ Len(call.contingency_table.rows[1]) = 2)
        ELSE /\ pc = "raised"
             /\ result = NoResult
             /\ hypotheses = NoHypotheses
             /\ trace = <<>>

\* the call is chi_square_goodness_of_fit on a non-empty list of non-negative
\* whole counts
GoodnessOfFitOfCounts ==
    /\ call.fn = "chi_square_goodness_of_fit"
    /\ call.observed # <<>>
    /\ \A i \in DOMAIN call.observed : IsFrequency(call.observed[i])

\* the total of the counts of the call
CountsTotal == FSum(call.observed)

\* C23: chi_square_goodness_of_fit on k counts of total N, expected omitted,
\* reports k copies of N/k as expected_frequencies and k-1 degrees of freedom;
\* when the k counts are all the same c, whatever c >= 0, the statistic and
\* every standardized residual are 0 and nothing is divided by zero; with
\* expected supplied, a length other than k is refused before computing
C23_EqualExpectedFrequencies ==
    GoodnessOfFitOfCounts =>
        /\ call.expected = <<>> =>
              /\ pc = "returned"
              /\ ~ErrorRecord
              /\ result["expected_frequencies"]
                   = [i \in DOMAIN call.observed |->
                        FDiv(CountsTotal, Num(Len(call.observed)))]
              /\ result["degrees_of_freedom"] = Num(Len(call.observed) - 1)
              /\ AllEqual(call.observed) =>
                    /\ result["chi2_statistic"] = Num(0)
                    /\ \A i \in DOMAIN call.observed :
                          result["standardized_residuals"][i] = Num(0)
                    /\ zerodiv = {}
        /\ (call.expected # <<>> /\ Len(call.expected[1]) # Len(call.observed)) =>
              /\ pc = "raised"
              /\ raised = "Observed and expected must have the same length"
              /\ trace = <<>>

\* |rho| < 0.999 for the rho of the record, which is held as its signed square
RhoBelow999 ==
    LET rhoSq == result["correlation_coefficient"]
    IN  IsFin(rhoSq) /\ Abs(rhoSq.n) * 1000 * 1000 < 999 * 999 * rhoSq.d

\* C24: spearmans_rank_correlation on every input its validation accepts, n = 3
\* included, puts confidence_interval in the record exactly when |rho| < 0.999;
\* the interval is then computed without dividing by zero and both its bounds
\* are finite; for |rho| >= 0.999 the key is absent
C24_SpearmanIntervalIsDefinedOrAbsent ==
    Returned("spearmans_rank_correlation") =>
        /\ "confidence_interval" \in DOMAIN result <=> RhoBelow999
        /\ "confidence_interval" \in DOMAIN result =>
              /\ zerodiv = {}
              /\ result["confidence_interval"].lower = "fin"
              /\ result["confidence_interval"].upper = "fin"

\* a regression of y on x has returned for points that lie on y = 2x + 1, three
\* or more, at distinct x
ExactlyLinear ==
    /\ pc = "returned"
    /\ call.fn \in {"linear_regression_tests", "coefficient_of_determination"}
    /\ Len(call.x_data) >= 3
    /\ \A i \in DOMAIN call.x_data : call.y_data[i] = 2 * call.x_data[i] + 1
    /\ \A i, j \in DOMAIN call.x_data : call.x_data[i] = call.x_data[j] => i = j

\* the field is not in the record, or is a finite number
AbsentOrFinite(key) == key \in DOMAIN result => IsFin(result[key])

\* C25: on points that lie exactly on y = 2x + 1, linear_regression_tests and
\* coefficient_of_determination return slope 2, intercept 1 and R^2 = 1 and
\* divide by zero nowhere: the Durbin-Watson statistic, the F statistic, the t
\* statistic of the slope and the interval for R^2 are finite or absent
C25_ExactLineIsFittedWithoutDivisionByZero ==
    ExactlyLinear =>
        /\ result["slope"] = Num(2)
        /\ result["intercept"] = Num(1)
        /\ result["r_squared"] = Num(1)
        /\ zerodiv = {}
        /\ AbsentOrFinite("f_statistic")
        /\ AbsentOrFinite("durbin_watson")
        /\ AbsentOrFinite("t_statistic_slope")
        /\ "r2_confidence_interval" \in DOMAIN result =>
              /\ result["r2_confidence_interval"].lower = "fin"
              /\ result["r2_confidence_interval"].upper = "fin"

\* the call is kruskal_wallis_test on two or more groups, none of them empty
KruskalOfGroups ==
    /\ call.fn = "kruskal_wallis_test"
    /\ Len(call.groups) >= 2
    /\ \A i \in DOMAIN call.groups : call.groups[i] # <<>>

\* the number of observations of the call, all groups together
TotalN == SumSeq([i \in DOMAIN call.groups |-> Len(call.groups[i])])

\* C27: kruskal_wallis_test on k >= 2 non-empty groups of N observations in all
\* returns eta_squared = max(0, (H-k+1)/(N-k)), a defined value >= 0, and
\* degrees_of_freedom = k-1; when every group has one observation (N = k) no
\* division by zero is evaluated
C27_EtaSquaredIsDefined ==
    KruskalOfGroups =>
        /\ pc = "returned"
        /\ "eta_squared" \in DOMAIN result
        /\ IsFin(result["eta_squared"])
        /\ result["eta_squared"].n >= 0
        /\ TotalN > Len(call.groups) =>
              \/ result["eta_squared"] = Num(0)
              \/ result["eta_squared"]
                   = FDiv(FAdd(FSub(result["h_statistic"], Num(Len(call.groups))), Num(1)),
                          Num(TotalN - Len(call.groups)))
        /\ result["degrees_of_freedom"] = Num(Len(call.groups) - 1)
        /\ zerodiv = {}

\* linear_regression_tests has returned for a perfect fit: the residual sum of
\* squares is 0 on x and y that both vary, so that R^2 = 1
PerfectFit ==
    /\ Returned("linear_regression_tests")
    /\ result["r_squared"] = Num(1)

\* C30: whenever linear_regression_tests finds a perfect fit (R^2 = 1) the
\* outcome of its overall test is rejection: f_p_value < alpha and the
\* interpretation begins with "Reject", never "Fail to reject"
C30_PerfectFitRejects ==
    PerfectFit =>
        /\ FLt(result["f_p_value"], call.alpha)
        /\ result["interpretation"].verdict = "Reject"

\* the fields of the text, row by row, as float() reads them (<<>> where it
\* raises)
FieldsOf(table_str) ==
    LET rows == Split(table_str, ";")
    IN  [i \in DOMAIN rows |->
           LET fields == Split(rows[i], ",")
           IN  [j \in DOMAIN fields |-> PyFloat(fields[j])]]

\* the text denotes a table of two rows or more, all of the same number of
\* columns, two or more, every value a number that is not negative
WellFormedTable(table_str) ==
    LET t == FieldsOf(table_str)
    IN  /\ Len(t) >= 2
        /\ \A i \in DOMAIN t : Len(t[i]) = Len(t[1])
        /\ Len(t[1]) >= 2
        /\ \A i \in DOMAIN t : \A j \in DOMAIN t[i] : t[i][j] # <<>> /\ t[i][j][1] >= 0

\* C21: validate_contingency_table(text) reports valid exactly when the parsed
\* table has 2 rows or more, every row the same number of columns, 2 columns or
\* more and no negative value, and otherwise returns False, no table and a
\* message that is not empty; so every table input_contingency_table returns
\* passes the 2x2 precondition of chi_square_association
C21_OnlyWellFormedTablesAreValid ==
    /\ Returned("validate_contingency_table") =>
          /\ result["is_valid"] <=> WellFormedTable(call.table_str)
          /\ ~result["is_valid"] =>
                /\ result["table"] = <<>>
                /\ result["error_msg"] \notin {"", "None"}
    /\ call.fn = "_chi_square_assoc_menu" =>
          /\ Len(call.contingency_table.rows) >= 2
          /\ Len(call.contingency_table.rows[1]) >= 2
          /\ raised # "Contingency table must be at least 2x2"

\* the data the name is stored with in `store`, as a set: empty if it is not
\* stored, more than one element if it is stored more than once
StoredUnder(store, name) == {store[i].data : i \in {j \in DOMAIN store : store[j].name = name}}

\* the names stored in `store`
StoredNames(store) == {store[i].name : i \in DOMAIN store}

\* the two stores hold the same data under every name but `name`
SameButFor(store, other, name) ==
    \A n \in (StoredNames(store) \cup StoredNames(other)) \ {name} :
       StoredUnder(store, n) = StoredUnder(other, n)

\* C26: DataManager is a map from names to samples: add_dataset(name, text)
\* returns True and stores the parsed numbers under name exactly when the text
\* parses to a list of numbers that is not empty, and otherwise returns False
\* and leaves the datasets as they were; remove_dataset(name) returns True
\* exactly when name was stored, then get_dataset(name) is None and the other
\* datasets are as they were; list_datasets() holds the stored names, each once
C26_DataManagerIsAMap ==
    /\ \A i, j \in DOMAIN list_datasets(datasets) :
          list_datasets(datasets)[i] = list_datasets(datasets)[j] => i = j
    /\ {list_datasets(datasets)[i] : i \in DOMAIN list_datasets(datasets)}
         = StoredNames(datasets)
    /\ Returned("add_dataset") =>
          LET parsed == parse_comma_separated(call.data_str)
          IN  IF parsed.raised = "none" /\ parsed.data # <<>>
              THEN /\ result["returns"]
                   /\ get_dataset(datasets, call.name) = <<parsed.data>>
                   /\ StoredUnder(datasets, call.name) = {parsed.data}
                   /\ SameButFor(datasets, call.stored, call.name)
              ELSE /\ ~result["returns"]
                   /\ datasets = call.stored
    /\ Returned("remove_dataset") =>
          /\ result["returns"] <=> call.name \in StoredNames(call.stored)
          /\ get_dataset(datasets, call.name) = <<>>
          /\ SameButFor(datasets, call.stored, call.name)

\* add_dataset has returned True for a name that was stored with other data,
\* beside another dataset
C26_Witness ==
    /\ Returned("add_dataset")
    /\ result["returns"]
    /\ get_dataset(call.stored, call.name) # <<>>
    /\ get_dataset(call.stored, call.name) # get_dataset(datasets, call.name)
    /\ Len(datasets) = 2

\* the handler that has just ended found the datasets call.stored
FoundDatasets == pc \in {"returned", "data"} /\ "stored" \in DOMAIN call

\* C28: whenever a menu interaction leaves other values under a name that was
\* already stored, the user was asked to confirm the overwriting of that name
\* (and the interaction was _add_dataset); and a test menu whose directly
\* entered sample was given a name already stored leaves the datasets as they
\* were and prints "already exists"
C28_OverwriteOnlyWhenConfirmed ==
    FoundDatasets =>
        /\ \A n \in StoredNames(call.stored) \cap StoredNames(datasets) :
              StoredUnder(datasets, n) # StoredUnder(call.stored, n)
                  => call.fn = "_add_dataset" /\ call.name = n
                     /\ "input Overwrite?" \in Steps
        /\ (call.fn = "_students_t_menu"
            /\ call.dataset_name \in StoredNames(call.stored))
               => datasets = call.stored /\ "print already exists" \in Steps

\* C29: in MenuSystem.run, a test that raised an exception is followed by the
\* main menu, with the datasets it found; run returns only from the main menu,
\* on the choice '0'; and a choice that run does not know leaves the main menu
\* showing, runs no test and keeps the datasets
C29_OnlyChoiceZeroEndsRun ==
    [][/\ pc = "raised" => pc' = "idle" /\ datasets' = datasets
       /\ pc' = "exited" /\ pc # "exited"
             => pc = "idle" /\ call'.fn = "run" /\ Strip(call'.choice) = <<"0">>
       /\ (pc = "idle" /\ call'.fn = "run" /\ Strip(call'.choice) # <<"0">>)
             => /\ pc' = "invalid"
                /\ result' = NoResult
                /\ raised' = "none"
                /\ datasets' = datasets
       /\ pc = "invalid" => pc' = "idle" /\ result' = NoResult /\ datasets' = datasets]_vars

\* a test menu raised an exception while datasets were stored
C29_Witness ==
    /\ pc = "raised"
    /\ call.fn = "_chi_square_assoc_menu"
    /\ datasets # <<>>
=============================================================================
